---- MODULE Spec2Model ----
(***************************************************************************)
(* Model of the hierarchical-Bayesian analysis pipeline of                 *)
(* analyze_bayesian.py: the observation extractor                          *)
(* (prepare_data_for_model), the configuration decoders, the               *)
(* configuration scorer (analyze_all_configs), the uncertainty ranker      *)
(* (identify_uncertain_configs) and main().                                *)
(*                                                                         *)
(* Python values are modelled as follows.                                  *)
(*   - a list / 1-d array   : a sequence; Python position i is TLA+        *)
(*                            position i+1, stored index VALUES stay       *)
(*                            0-based as in the code;                      *)
(*   - a dict               : a function on its key set;                   *)
(*   - a raised exception   : the field "raised" of the result record      *)
(*                            ("none" when the call returned).             *)
(***************************************************************************)
EXTENDS Integers, Sequences, FiniteSets, TLC

VARIABLES
    pc,             \* position of main(), or of the scorer harness
    raised,         \* exception that ended main(), "none" while running
    results,        \* phase1_data["results"]: the trial corpus
    true_errors,    \* load_ground_truth(): set of true-error lines
    observations,   \* outputs of prepare_data_for_model ...
    location_idx,
    factor_matrix,
    location_map,
    is_true_error,
    all_locations,
    n_locations,
    row_trial,      \* history: the trial whose loop iteration emitted each row
    trace,          \* the Posterior Sample Set handed to the scorer
    min_recall,     \* caller-supplied recall threshold, as a ratio <<n, d>>
    posterior,      \* history: per config, the per-draw precision/recall
    config_results, \* the table returned by analyze_all_configs
    key_order,      \* the keys of config_results in dict insertion order
    memo,           \* history: per min_recall, the table of its first call
    calls,          \* history: number of scorer calls made so far
    flat_samples,   \* history: the flattened samples of the last scorer call
    model,          \* main's model: the arguments it was built from
    sample_stats,   \* trace.sample_stats: the sampler's diagnostics
    summary,        \* the rollup counts of main()
    results_file,   \* content of bayesian_analysis.json, Unbound until written
    threshold_low,  \* arguments of identify_uncertain_configs, as ratios
    threshold_high,
    uncertain_configs,  \* the list returned by identify_uncertain_configs
    args,           \* cli.main: the options check, reader and function
    system_prompt,  \* cli.main: the system prompt selected
    prompt_text,    \* cli.main: the prompt composed
    response,       \* cli.main: the chunks the model returns, in order
    output_chunks,  \* cli.main: the chunks collected so far
    stdout,         \* cli.main: what has been printed
    output_txt,     \* cli.main: content of output.txt
    exit_code,      \* cli.main: the exit code of the command
    issues,         \* format_issues: its arguments and its result
    filename,
    output_format,
    formatted,
    iteration,      \* phase1: the loop variable i
    phase1_file,    \* phase1: content of bayesian_phase1.json
    trial_log,      \* phase1 history: the outcome of each iteration
    fs,             \* config: the directories that hold a config file
    start_dir,      \* config: arguments and locals of find_config_file
    current,
    examined,       \* config history: the directories examined, in order
    config_path,    \* config: what find_config_file returned
    profiles        \* config: what load_profiles returned

vars == <<pc, raised, results, true_errors, observations, location_idx,
          factor_matrix, location_map, is_true_error, all_locations,
          n_locations, row_trial, trace, min_recall, posterior,
          config_results, key_order, memo, calls, flat_samples, model,
          sample_stats, summary, results_file,
          threshold_low, threshold_high, uncertain_configs,
          args, system_prompt, prompt_text, response, output_chunks, stdout,
          output_txt, exit_code, issues, filename, output_format, formatted,
          iteration, phase1_file, trial_log, fs, start_dir, current, examined,
          config_path, profiles>>

extractVars == <<observations, location_idx, factor_matrix, location_map,
                 is_true_error, all_locations, n_locations, row_trial>>

scorerVars == <<trace, min_recall, posterior, config_results, key_order>>

callVars == <<memo, calls, flat_samples>>

mainVars == <<model, sample_stats, summary, results_file>>

rankerVars == <<threshold_low, threshold_high, uncertain_configs>>

cliVars == <<args, system_prompt, prompt_text, response, output_chunks,
             stdout, output_txt, exit_code>>

formatVars == <<issues, filename, output_format, formatted>>

phase1Vars == <<iteration, phase1_file, trial_log>>

configVars == <<fs, start_dir, current, examined, config_path, profiles>>

\* The variables of the programs beside the analysis pipeline.
toolVars == <<cliVars, formatVars, phase1Vars, configVars>>

\* The variables of the analysis pipeline but its corpus.
pipelineVars == <<true_errors, extractVars, scorerVars, callVars, mainVars,
                  rankerVars>>

(***************************************************************************)
(* Bounds of the model.                                                    *)
(***************************************************************************)
MaxTrials == 2      \* trials in a corpus
MaxDetected == 2    \* entries of one trial's detected_lines (repeats allowed)
MaxLocations == 2   \* flagged locations of a corpus handed to the scorer
MaxDraws == 2       \* posterior draws of a trace (chains x samples)
MaxCalls == 3       \* calls of the scorer made by one caller
MaxGiven == 3       \* entries of a table handed directly to the ranker
MaxChains == 2      \* chains of a trace whose flattening is examined
MaxSamples == 2     \* samples per chain of such a trace

Lines == {5, 9}             \* line numbers a trial may flag
GroundTruths == {{}, {5}, {9, 12}}   \* true-error sets (12 is never flagged)
TrialConfigIdx == {0, 1}    \* configurations that were trialed

(***************************************************************************)
(* Generic helpers.                                                        *)
(***************************************************************************)
Range(s) == {s[i] : i \in DOMAIN s}

SeqsUpTo(S, n) == UNION {[1..k -> S] : k \in 0..n}

\* A function written [x \in S |-> e] holds an array or dict of the code;
\* Array makes TLC compute its elements once instead of at every access.
Array(f) == f @@ <<>>

\* Python's & on non-negative integers.
RECURSIVE BitAnd(_, _)
BitAnd(a, b) ==
    IF a = 0 \/ b = 0 THEN 0
    ELSE (IF a % 2 = 1 /\ b % 2 = 1 THEN 1 ELSE 0) + 2 * BitAnd(a \div 2, b \div 2)

\* Python's bool() of an integer and int() of a boolean.
bool(x) == x # 0
int(b) == IF b THEN 1 ELSE 0

\* Python's sorted() of a set of integers: ascending list.
RECURSIVE sortedDescending(_)
sortedDescending(S) ==
    IF S = {} THEN <<>>
    ELSE LET m == CHOOSE x \in S : \A y \in S : x >= y
         IN  <<m>> \o sortedDescending(S \ {m})
RECURSIVE sorted(_)
sorted(S) ==
    IF S = {} THEN <<>>
    ELSE LET m == CHOOSE x \in S : \A y \in S : x <= y
         IN  <<m>> \o sorted(S \ {m})

(***************************************************************************)
(* The seven factors and the configuration decoders.                       *)
(***************************************************************************)
NumFactors == 7
NumConfigs == 128

\* The key order of extract_factor_values.
FactorOrder == <<"arrow_format", "structured_output", "avoid_style",
                 "scope_restriction", "use_confidence",
                 "prioritize_precision", "use_reasoning">>
FactorNames == Range(FactorOrder)

\* PromptConfig.from_index(index)
from_index(index) ==
    [use_arrow_format      |-> bool(BitAnd(index, 1)),
     use_structured_output |-> bool(BitAnd(index, 2)),
     avoid_style           |-> bool(BitAnd(index, 4)),
     scope_restriction     |-> bool(BitAnd(index, 8)),
     use_confidence        |-> bool(BitAnd(index, 16)),
     prioritize_precision  |-> bool(BitAnd(index, 32)),
     use_reasoning         |-> bool(BitAnd(index, 64))]

\* compare_models.get_config(config_idx)
get_config(config_idx) ==
    [use_arrow_format      |-> bool(BitAnd(config_idx, 1)),
     use_structured_output |-> bool(BitAnd(config_idx, 2)),
     avoid_style           |-> bool(BitAnd(config_idx, 4)),
     scope_restriction     |-> bool(BitAnd(config_idx, 8)),
     use_confidence        |-> bool(BitAnd(config_idx, 16)),
     prioritize_precision  |-> bool(BitAnd(config_idx, 32)),
     use_reasoning         |-> bool(BitAnd(config_idx, 64))]

\* PromptConfig.to_dict(self)
to_dict(self) ==
    [arrow_format         |-> self.use_arrow_format,
     structured_output    |-> self.use_structured_output,
     avoid_style          |-> self.avoid_style,
     scope_restriction    |-> self.scope_restriction,
     use_confidence       |-> self.use_confidence,
     prioritize_precision |-> self.prioritize_precision,
     use_reasoning        |-> self.use_reasoning]

\* A config dict that lost one of its keys (a malformed trial record).
DropKey(d, k) == [x \in (DOMAIN d) \ {k} |-> d[x]]

\* extract_factor_values(config_dict): config_dict[key] raises KeyError when
\* the key is absent; otherwise the 0/1 vector in FactorOrder.
extract_factor_values_defaulting(config_dict) ==
    [raised |-> "none",
     value  |-> [k \in 1..NumFactors |->
                    IF FactorOrder[k] \in DOMAIN config_dict
                    THEN int(config_dict[FactorOrder[k]]) ELSE 0]]
extract_factor_values(config_dict) ==
    IF \E k \in 1..NumFactors : FactorOrder[k] \notin DOMAIN config_dict
    THEN [raised |-> "KeyError", value |-> <<>>]
    ELSE [raised |-> "none",
          value  |-> [k \in 1..NumFactors |-> int(config_dict[FactorOrder[k]])]]

(***************************************************************************)
(* Observation Extractor: prepare_data_for_model.                          *)
(***************************************************************************)
\* Lines 71-73: all_flagged_locations.update(result["detected_lines"]) for
\* every result, starting from the empty set.
RECURSIVE collect_flagged(_, _)
collect_flagged(rs, acc) ==
    IF rs = <<>> THEN acc
    ELSE collect_flagged(Tail(rs), acc \cup Range(Head(rs).detected_lines))

all_flagged_locations_last_only(rs) ==
    IF rs = <<>> THEN {} ELSE Range(rs[Len(rs)].detected_lines)
all_flagged_locations(rs) == collect_flagged(rs, {})

\* Line 76: all_locations = sorted(all_flagged_locations)
make_all_locations_unsorted(flagged) == sortedDescending(flagged)
make_all_locations(flagged) == sorted(flagged)

\* Line 77: {loc: idx for idx, loc in enumerate(all_locations)}
make_location_map(locs) ==
    [loc \in Range(locs) |-> (CHOOSE i \in DOMAIN locs : locs[i] = loc) - 1]

\* Line 81: np.array([loc in true_errors for loc in all_locations], dtype=int)
make_is_true_error_with_unflagged(locs, truth) ==
    [i \in DOMAIN locs |-> int(locs[i] \in truth)]
        \o [k \in 1..Cardinality(truth \ Range(locs)) |-> 1]
make_is_true_error(locs, truth) ==
    [i \in DOMAIN locs |-> int(locs[i] \in truth)]

\* Line 93: the locations the inner loop visits for one trial.
inner_loop_locations_detected_only(locs, detected_lines) ==
    SelectSeq(locs, LAMBDA loc : loc \in detected_lines)
inner_loop_locations(locs, detected_lines) == locs

\* Line 95: detected = 1 if loc in detected_lines else 0
detected_bit_by_index(loc, loc_idx, detected_lines) ==
    IF loc_idx \in detected_lines THEN 1 ELSE 0
detected_bit(loc, loc_idx, detected_lines) ==
    IF loc \in detected_lines THEN 1 ELSE 0

EmptyTable ==
    [observations |-> <<>>, location_indices |-> <<>>,
     factor_matrices |-> <<>>, row_trial |-> <<>>]

\* Lines 93-99: the inner loop of trial number t (t is history only).
RECURSIVE inner_loop(_, _, _, _, _, _)
inner_loop(tab, locs, lmap, detected_lines, config_factors, t) ==
    IF locs = <<>> THEN tab
    ELSE LET loc      == Head(locs)
             loc_idx  == lmap[loc]
             detected == detected_bit(loc, loc_idx, detected_lines)
         IN  inner_loop(
                 [observations     |-> Append(tab.observations, detected),
                  location_indices |-> Append(tab.location_indices, loc_idx),
                  factor_matrices  |-> Append(tab.factor_matrices, config_factors),
                  row_trial        |-> Append(tab.row_trial, t)],
                 Tail(locs), lmap, detected_lines, config_factors, t)

\* Lines 88-99: the loop over the trials; a KeyError of
\* extract_factor_values leaves the function at once.
outer_loop_location_major(tab, rs, t, locs, lmap) ==
    IF \E k \in DOMAIN rs : extract_factor_values(rs[k].config).raised # "none"
    THEN [raised |-> "KeyError", tab |-> EmptyTable]
    ELSE LET rows == 1..(Len(rs) * Len(locs))
             trial_of(r) == ((r - 1) % Len(rs)) + 1
             loc_of(r) == locs[((r - 1) \div Len(rs)) + 1]
         IN  [raised |-> "none",
              tab |->
                [observations |->
                    [r \in rows |->
                        detected_bit(loc_of(r), lmap[loc_of(r)],
                                     Range(rs[trial_of(r)].detected_lines))],
                 location_indices |-> [r \in rows |-> lmap[loc_of(r)]],
                 factor_matrices |->
                    [r \in rows |->
                        extract_factor_values(rs[trial_of(r)].config).value],
                 row_trial |-> [r \in rows |-> trial_of(r)]]]
RECURSIVE outer_loop(_, _, _, _, _)
outer_loop(tab, rs, t, locs, lmap) ==
    IF rs = <<>> THEN [raised |-> "none", tab |-> tab]
    ELSE LET cf == extract_factor_values(Head(rs).config)
             detected_lines == Range(Head(rs).detected_lines)
         IN  IF cf.raised # "none"
             THEN [raised |-> cf.raised, tab |-> EmptyTable]
             ELSE outer_loop(
                      inner_loop(tab, inner_loop_locations(locs, detected_lines),
                                 lmap, detected_lines, cf.value, t),
                      Tail(rs), t + 1, locs, lmap)

prepare_data_for_model(rs, truth) ==
    LET locs == make_all_locations(all_flagged_locations(rs))
        lmap == make_location_map(locs)
        out  == outer_loop(EmptyTable, rs, 1, locs, lmap)
    IN  [raised        |-> out.raised,
         observations  |-> out.tab.observations,
         location_idx  |-> out.tab.location_indices,
         factor_matrix |-> out.tab.factor_matrices,
         location_map  |-> lmap,
         is_true_error |-> make_is_true_error(locs, truth),
         all_locations |-> locs,
         row_trial     |-> out.tab.row_trial]

(***************************************************************************)
(* Prior predictive check: the only statement of prior_predictive_check    *)
(* that can raise is the column access u_l[:, location_idx] of line 196    *)
(* with location_idx = n_locations // 2 on an array of n_locations         *)
(* columns.                                                                *)
(***************************************************************************)
prior_predictive_check(n) ==
    LET middle == n \div 2
    IN  IF middle < n THEN [raised |-> "none"] ELSE [raised |-> "IndexError"]

(***************************************************************************)
(* main(): the corpus and the ground truth are loaded, then prepared, then *)
(* handed to the prior predictive check.                                   *)
(***************************************************************************)
Unbound == <<>>

CliUnbound ==
    /\ args = Unbound
    /\ system_prompt = Unbound
    /\ prompt_text = Unbound
    /\ response = Unbound
    /\ output_chunks = Unbound
    /\ stdout = Unbound
    /\ output_txt = Unbound
    /\ exit_code = Unbound

FormatUnbound ==
    /\ issues = Unbound
    /\ filename = Unbound
    /\ output_format = Unbound
    /\ formatted = Unbound

Phase1Unbound ==
    /\ iteration = Unbound
    /\ phase1_file = Unbound
    /\ trial_log = Unbound

ConfigUnbound ==
    /\ fs = Unbound
    /\ start_dir = Unbound
    /\ current = Unbound
    /\ examined = Unbound
    /\ config_path = Unbound
    /\ profiles = Unbound

ToolsUnbound == CliUnbound /\ FormatUnbound /\ Phase1Unbound /\ ConfigUnbound

PipelineUnbound ==
    /\ true_errors = Unbound
    /\ observations = Unbound
    /\ location_idx = Unbound
    /\ factor_matrix = Unbound
    /\ location_map = Unbound
    /\ is_true_error = Unbound
    /\ all_locations = Unbound
    /\ n_locations = Unbound
    /\ row_trial = Unbound
    /\ trace = Unbound
    /\ min_recall = Unbound
    /\ posterior = Unbound
    /\ config_results = Unbound
    /\ key_order = Unbound
    /\ memo = Unbound
    /\ calls = 0
    /\ flat_samples = Unbound
    /\ model = Unbound
    /\ sample_stats = Unbound
    /\ summary = Unbound
    /\ results_file = Unbound
    /\ threshold_low = Unbound
    /\ threshold_high = Unbound
    /\ uncertain_configs = Unbound

TrialConfigs ==
    {to_dict(from_index(i)) : i \in TrialConfigIdx}
    \cup {DropKey(to_dict(from_index(1)), "use_reasoning")}

Trials == [config : TrialConfigs, detected_lines : SeqsUpTo(Lines, MaxDetected)]

Init ==
    /\ results \in SeqsUpTo(Trials, MaxTrials)
    /\ true_errors \in GroundTruths
    /\ pc = "prepare"
    /\ raised = "none"
    /\ observations = Unbound
    /\ location_idx = Unbound
    /\ factor_matrix = Unbound
    /\ location_map = Unbound
    /\ is_true_error = Unbound
    /\ all_locations = Unbound
    /\ n_locations = Unbound
    /\ row_trial = Unbound
    /\ trace = Unbound
    /\ min_recall = Unbound
    /\ posterior = Unbound
    /\ config_results = Unbound
    /\ key_order = Unbound
    /\ memo = Unbound
    /\ calls = 0
    /\ flat_samples = Unbound
    /\ model = Unbound
    /\ sample_stats = Unbound
    /\ summary = Unbound
    /\ results_file = Unbound
    /\ ToolsUnbound
    /\ threshold_low = Unbound
    /\ threshold_high = Unbound
    /\ uncertain_configs = Unbound

\* Lines 385-398.
MainPrepare ==
    /\ pc = "prepare"
    /\ \E r \in {prepare_data_for_model(results, true_errors)} :
           IF r.raised # "none"
           THEN /\ pc' = "raised"
                /\ raised' = r.raised
                /\ UNCHANGED extractVars
           ELSE /\ pc' = "prior_check"
                /\ observations' = r.observations
                /\ location_idx' = r.location_idx
                /\ factor_matrix' = r.factor_matrix
                /\ location_map' = r.location_map
                /\ is_true_error' = r.is_true_error
                /\ all_locations' = r.all_locations
                /\ n_locations' = Len(r.all_locations)
                /\ row_trial' = r.row_trial
                /\ UNCHANGED raised
    /\ UNCHANGED <<results, true_errors>>
    /\ UNCHANGED scorerVars
    /\ UNCHANGED callVars
    /\ UNCHANGED mainVars
    /\ UNCHANGED rankerVars
    /\ UNCHANGED toolVars

\* Line 401.
MainPriorCheck ==
    /\ pc = "prior_check"
    /\ \E r \in {prior_predictive_check(n_locations)} :
           IF r.raised # "none"
           THEN pc' = "raised" /\ raised' = r.raised
           ELSE pc' = "input" /\ UNCHANGED raised
    /\ UNCHANGED <<results, true_errors>>
    /\ UNCHANGED extractVars
    /\ UNCHANGED scorerVars
    /\ UNCHANGED callVars
    /\ UNCHANGED mainVars
    /\ UNCHANGED rankerVars
    /\ UNCHANGED toolVars

Next == MainPrepare \/ MainPriorCheck

Spec == Init /\ [][Next]_vars

(***************************************************************************)
(* Numbers of the scorer.  A non-negative real is held in fixed point as   *)
(* <<hi, lo>> = (hi * FxBase + lo) * 10^-14, 0 <= lo < FxBase; a quotient  *)
(* is held exactly as [kind, num, den] (kind "num"), or is "nan" / "inf"   *)
(* as IEEE division by zero gives under numpy (a warning, no exception).   *)
(***************************************************************************)
FxBase == 10 ^ 7
FxZero == <<0, 0>>
FxOne == <<FxBase, 0>>
FxOfInt(n) == <<n * FxBase, 0>>
FxAdd(a, b) ==
    LET lo == a[2] + b[2] IN <<a[1] + b[1] + (lo \div FxBase), lo % FxBase>>
FxTimes(k, a) ==
    LET lo == k * a[2] IN <<k * a[1] + (lo \div FxBase), lo % FxBase>>
FxLess(a, b) == a[1] < b[1] \/ (a[1] = b[1] /\ a[2] < b[2])
FxLeq(a, b) == ~FxLess(b, a)

RECURSIVE FxSum(_)
FxSum(s) == IF s = <<>> THEN FxZero ELSE FxAdd(Head(s), FxSum(Tail(s)))

RECURSIVE IntSum(_)
IntSum(s) == IF s = <<>> THEN 0 ELSE Head(s) + IntSum(Tail(s))

\* Line 298: the floor 1e-10 of the precision denominator.
Epsilon == <<0, 10 ^ 4>>

\* np.maximum(a, b)
maximum_unfloored(a, b) == a
maximum(a, b) == IF FxLess(a, b) THEN b ELSE a

\* a / b on float64 arrays.
true_divide(a, b) ==
    IF b = FxZero
    THEN [kind |-> IF a = FxZero THEN "nan" ELSE "inf", num |-> a, den |-> b]
    ELSE [kind |-> "num", num |-> a, den |-> b]

\* ratio > q for a rational q = <<n, d>>; every comparison with nan is False.
greater(r, q) ==
    CASE r.kind = "nan" -> FALSE
      [] r.kind = "inf" -> TRUE
      [] OTHER -> FxLess(FxTimes(q[1], r.den), FxTimes(q[2], r.num))

\* Line 289: 1 / (1 + np.exp(-x)) for an integer logit x, rounded to
\* 10^-14.  np.exp overflows to inf from 710 on, which makes the quotient
\* exactly 0; from 37 on 1 + exp(-x) rounds to 1.  Logits strictly between
\* -710 and -32, or between 32 and 37, are outside the modelled inputs.
SigmoidTable ==
    <<<<0, 1>>, <<0, 3>>, <<0, 9>>, <<0, 25>>,
      <<0, 69>>, <<0, 188>>, <<0, 511>>, <<0, 1389>>,
      <<0, 3775>>, <<0, 10262>>, <<0, 27895>>, <<0, 75826>>,
      <<0, 206115>>, <<0, 560280>>, <<0, 1522998>>, <<0, 4139938>>,
      <<1, 1253516>>, <<3, 590223>>, <<8, 3152803>>, <<22, 6032430>>,
      <<61, 4417460>>, <<167, 142185>>, <<453, 9786870>>, <<1233, 9457599>>,
      <<3353, 5013047>>, <<9110, 5119440>>, <<24726, 2315663>>, <<66928, 5092428>>,
      <<179862, 996209>>, <<474258, 7317757>>, <<1192029, 2202212>>, <<2689414, 2137000>>,
      <<5000000, 0>>, <<7310585, 7863000>>, <<8807970, 7797788>>, <<9525741, 2682243>>,
      <<9820137, 9003791>>, <<9933071, 4907572>>, <<9975273, 7684337>>, <<9990889, 4880560>>,
      <<9996646, 4986953>>, <<9998766, 542401>>, <<9999546, 213130>>, <<9999832, 9857815>>,
      <<9999938, 5582540>>, <<9999977, 3967570>>, <<9999991, 6847197>>, <<9999996, 9409777>>,
      <<9999998, 8746484>>, <<9999999, 5860062>>, <<9999999, 8477002>>, <<9999999, 9439720>>,
      <<9999999, 9793885>>, <<9999999, 9924174>>, <<9999999, 9972105>>, <<9999999, 9989738>>,
      <<9999999, 9996225>>, <<9999999, 9998611>>, <<9999999, 9999489>>, <<9999999, 9999812>>,
      <<9999999, 9999931>>, <<9999999, 9999975>>, <<9999999, 9999991>>, <<9999999, 9999997>>,
      <<9999999, 9999999>>>>

sigmoid(x) ==
    CASE x <= -710 -> FxZero
      [] x >= -32 /\ x <= 32 -> SigmoidTable[x + 33]
      [] x >= 37 -> FxOne

(***************************************************************************)
(* Configuration Scorer.                                                   *)
(***************************************************************************)
\* Line 269.
factor_names == <<"u_s_i", "u_s_o", "u_s_d", "u_s_s", "u_s_c", "u_s_a", "u_s_r">>

\* ndarray.reshape(-1) of a 2-d array, and of the leading two axes of a
\* 3-d one: row-major concatenation of the rows.
RECURSIVE flatten(_)
flatten(m) == IF m = <<>> THEN <<>> ELSE Head(m) \o flatten(Tail(m))

\* ndarray.reshape(-1, n) of a 3-d array: the row-major element sequence
\* cut into rows of n.  numpy raises ValueError when n = 0 or the size is
\* no multiple of n.
reshape_rows(a, n) ==
    LET flat == flatten(flatten(a))
    IN  IF n = 0 \/ Len(flat) % n # 0
        THEN [raised |-> "ValueError", value |-> <<>>]
        ELSE [raised |-> "none",
              value  |-> Array([d \in 1..(Len(flat) \div n) |->
                             Array([l \in 1..n |-> flat[(d - 1) * n + l]])])]

\* Lines 315-323: the config dict of config_idx.
decode_config_swapped(config_idx) ==
    [arrow_format         |-> bool(BitAnd(config_idx, 2)),
     structured_output    |-> bool(BitAnd(config_idx, 1)),
     avoid_style          |-> bool(BitAnd(config_idx, 4)),
     scope_restriction    |-> bool(BitAnd(config_idx, 8)),
     use_confidence       |-> bool(BitAnd(config_idx, 16)),
     prioritize_precision |-> bool(BitAnd(config_idx, 32)),
     use_reasoning        |-> bool(BitAnd(config_idx, 64))]
decode_config(config_idx) ==
    [arrow_format         |-> bool(BitAnd(config_idx, 1)),
     structured_output    |-> bool(BitAnd(config_idx, 2)),
     avoid_style          |-> bool(BitAnd(config_idx, 4)),
     scope_restriction    |-> bool(BitAnd(config_idx, 8)),
     use_confidence       |-> bool(BitAnd(config_idx, 16)),
     prioritize_precision |-> bool(BitAnd(config_idx, 32)),
     use_reasoning        |-> bool(BitAnd(config_idx, 64))]

\* Line 313: range(128).
config_range_trialed_only ==
    {c \in 0..(NumConfigs - 1) :
        \E t \in DOMAIN results : results[t].config = to_dict(from_index(c))}
config_range_unscored_only ==
    {c \in 0..(NumConfigs - 1) :
        config_results = <<>> \/ c \notin DOMAIN config_results}
config_range == 0..(NumConfigs - 1)

\* Lines 264-279: the posterior samples, chain and sample axes flattened.
flatten_posterior_alpha_by_sample(tr, n) ==
    [alpha   |-> Array([d \in 1..(Len(tr["alpha"]) * Len(tr["alpha"][1])) |->
                     tr["alpha"][((d - 1) % Len(tr["alpha"])) + 1]
                                [((d - 1) \div Len(tr["alpha"])) + 1]]),
     u_l     |-> reshape_rows(tr["u_l"], n),
     factors |-> Array([i \in 1..NumFactors |-> flatten(tr[factor_names[i]])])]
flatten_posterior(tr, n) ==
    [alpha   |-> flatten(tr["alpha"]),
     u_l     |-> reshape_rows(tr["u_l"], n),
     factors |-> Array([i \in 1..NumFactors |-> flatten(tr[factor_names[i]])])]

\* Lines 282-284: the factor contribution of flat draw d.
factor_contribution_unweighted(config_factors, factor_samples_flat, d) ==
    IntSum(Array([i \in 1..NumFactors |-> config_factors[i]]))
factor_contribution_of_mean_effects(config_factors, factor_samples_flat, d) ==
    IntSum(Array([i \in 1..NumFactors |->
        config_factors[i]
            * (IntSum(factor_samples_flat[i]) \div Len(factor_samples_flat[i]))]))
factor_contribution(config_factors, factor_samples_flat, d) ==
    IntSum(Array([i \in 1..NumFactors |->
        config_factors[i] * factor_samples_flat[i][d]]))

\* Lines 262 and 281-301, on the flattened samples.
precision_and_recall(flat, config_dict, mask_int, n) ==
    LET cf     == extract_factor_values(config_dict)
        a_flat == flat.alpha
        u_l_flat == flat.u_l
        f_flat == flat.factors
        draws  == 1..Len(a_flat)
        contribution ==
            Array([d \in draws |-> factor_contribution(cf.value, f_flat, d)])
        logit_p ==
            Array([d \in draws |->
                Array([l \in 1..n |->
                    a_flat[d] + u_l_flat.value[d][l] + contribution[d]])])
        p_ls ==
            Array([d \in draws |-> Array([l \in 1..n |-> sigmoid(logit_p[d][l])])])
        true_error_mask == Array([l \in DOMAIN mask_int |-> mask_int[l] # 0])
        n_true_errors == Cardinality({l \in DOMAIN mask_int : true_error_mask[l]})
        \* p_ls[:, true_error_mask].sum(axis=1)
        numerator ==
            Array([d \in draws |->
                FxSum(Array([l \in 1..n |->
                    IF true_error_mask[l] THEN p_ls[d][l] ELSE FxZero]))])
        denominator == Array([d \in draws |-> FxSum(p_ls[d])])
    IN  IF cf.raised # "none"
        THEN [raised |-> cf.raised, precision |-> <<>>, recall |-> <<>>]
        ELSE IF u_l_flat.raised # "none"
        THEN [raised |-> u_l_flat.raised, precision |-> <<>>, recall |-> <<>>]
        ELSE [raised    |-> "none",
              precision |-> Array([d \in draws |->
                                true_divide(numerator[d],
                                            maximum(denominator[d], Epsilon))]),
              recall    |-> Array([d \in draws |->
                                true_divide(numerator[d], FxOfInt(n_true_errors))])]

\* Lines 254-301.
compute_precision_and_recall_for_config(tr, config_dict, mask_int, n) ==
    precision_and_recall(flatten_posterior(tr, n), config_dict, mask_int, n)

\* (boolean array).mean(): the fraction of True entries, as <<count, n>>.
mean_of_bools(b) == <<Cardinality({d \in DOMAIN b : b[d]}), Len(b)>>

\* Line 332: ((precision > 0.8) & (recall > min_recall)).mean().
prob_both_as_product(high, minr) ==
    <<mean_of_bools(high)[1] * mean_of_bools(minr)[1], Len(high) * Len(minr)>>
prob_both(high, minr) ==
    mean_of_bools(Array([d \in DOMAIN high |-> high[d] /\ minr[d]]))

\* ndarray.mean(), ndarray.std() and np.median() of a float64 array of
\* quotients, as the IEEE class of the value: "num" (finite), "inf" or
\* "nan".  A nan element makes all three nan; the quotients are never
\* negative, so an inf element makes the mean inf, the deviations inf - inf
\* = nan, and the median inf when it reaches the upper middle element.  An
\* empty array gives nan.
mean(a) ==
    [kind |-> IF a = <<>> \/ \E d \in DOMAIN a : a[d].kind = "nan" THEN "nan"
              ELSE IF \E d \in DOMAIN a : a[d].kind = "inf" THEN "inf"
              ELSE "num"]
std(a) ==
    [kind |-> IF a = <<>> \/ \E d \in DOMAIN a : a[d].kind # "num" THEN "nan"
              ELSE "num"]
median(a) ==
    [kind |-> IF a = <<>> \/ \E d \in DOMAIN a : a[d].kind = "nan" THEN "nan"
              ELSE IF Cardinality({d \in DOMAIN a : a[d].kind = "inf"})
                          >= Len(a) - (Len(a) \div 2)
              THEN "inf"
              ELSE "num"]

\* Lines 313 and 334: the loop inserts the keys in the order of range().
insertion_order(keys) ==
    SelectSeq([i \in 1..NumConfigs |-> i - 1], LAMBDA c : c \in keys)

\* Lines 304-347.  The fields mean_*, std_* and median_* of an entry hold
\* the IEEE class of a summary of the two per-draw sequences, which are
\* kept whole as "posterior".
\* Every call of compute_precision_and_recall_for_config flattens the same
\* unmodified trace, so the flattened samples are computed once.
analyze_all_configs(tr, mask_int, n, min_rec) ==
    LET flat == flatten_posterior(tr, n)
        config_dict == Array([config_idx \in config_range |->
                           decode_config(config_idx)])
        per == Array([config_idx \in config_range |->
                   precision_and_recall(
                       flat, config_dict[config_idx], mask_int, n)])
        failed == {c \in config_range : per[c].raised # "none"}
        entry(config_idx) ==
            LET precision_posterior == per[config_idx].precision
                recall_posterior    == per[config_idx].recall
                high == Array([d \in DOMAIN precision_posterior |->
                            greater(precision_posterior[d], <<4, 5>>)])
                minr == Array([d \in DOMAIN recall_posterior |->
                            greater(recall_posterior[d], min_rec)])
            IN  [prob_precision_gt_80 |-> mean_of_bools(high),
                 prob_recall_gt_min   |-> mean_of_bools(minr),
                 prob_both            |-> prob_both(high, minr),
                 mean_precision       |-> mean(precision_posterior),
                 std_precision        |-> std(precision_posterior),
                 median_precision     |-> median(precision_posterior),
                 mean_recall          |-> mean(recall_posterior),
                 std_recall           |-> std(recall_posterior),
                 median_recall        |-> median(recall_posterior),
                 config               |-> config_dict[config_idx]]
    IN  IF failed # {}
        THEN [raised    |-> per[CHOOSE c \in failed : \A x \in failed : c <= x].raised,
              results   |-> <<>>,
              order     |-> <<>>,
              posterior |-> <<>>]
        ELSE [raised    |-> "none",
              order     |-> insertion_order(config_range),
              results   |-> Array([config_idx \in config_range |-> entry(config_idx)]),
              posterior |-> Array([config_idx \in config_range |->
                                [precision |-> per[config_idx].precision,
                                 recall    |-> per[config_idx].recall]])]

(***************************************************************************)
(* main() from line 439 on: the corpus has been extracted and sampled; the *)
(* trace is whatever the sampler returned.  main() gets here only with at  *)
(* least one flagged location (the prior check raises on none).            *)
(***************************************************************************)
FactorEffectDraw == <<1, -1, 2, 0, 1, -2, 1>>
ScorerTrialed == <<1>>

\* The joint posterior draws: <<alpha, e>>; with e the location effects
\* are 0, 1, ... and the factor effects FactorEffectDraw, without e every
\* effect is zero.
DrawChoices == {<<-800, FALSE>>, <<0, FALSE>>, <<-28, TRUE>>, <<0, TRUE>>}

DrawSet(n) ==
    {[alpha |-> ch[1],
      u_l   |-> [l \in 1..n |-> IF ch[2] THEN l - 1 ELSE 0],
      u_s   |-> [k \in 1..NumFactors |-> IF ch[2] THEN FactorEffectDraw[k] ELSE 0]]
        : ch \in DrawChoices}

Shapes == {sh \in (1..MaxDraws) \X (1..MaxDraws) : sh[1] * sh[2] <= MaxDraws}

\* trace.posterior: every parameter is indexed (chain, sample), u_l also
\* by location; position (c, s) of every parameter holds the same draw.
TraceOf(f, C, S) ==
    [alpha |-> [c \in 1..C |-> [s \in 1..S |-> f[<<c, s>>].alpha]],
     u_l   |-> [c \in 1..C |-> [s \in 1..S |-> f[<<c, s>>].u_l]],
     u_s_i |-> [c \in 1..C |-> [s \in 1..S |-> f[<<c, s>>].u_s[1]]],
     u_s_o |-> [c \in 1..C |-> [s \in 1..S |-> f[<<c, s>>].u_s[2]]],
     u_s_d |-> [c \in 1..C |-> [s \in 1..S |-> f[<<c, s>>].u_s[3]]],
     u_s_s |-> [c \in 1..C |-> [s \in 1..S |-> f[<<c, s>>].u_s[4]]],
     u_s_c |-> [c \in 1..C |-> [s \in 1..S |-> f[<<c, s>>].u_s[5]]],
     u_s_a |-> [c \in 1..C |-> [s \in 1..S |-> f[<<c, s>>].u_s[6]]],
     u_s_r |-> [c \in 1..C |-> [s \in 1..S |-> f[<<c, s>>].u_s[7]]]]

Traces(n) ==
    UNION {{TraceOf(f, sh[1], sh[2]) :
               f \in [(1..sh[1]) \X (1..sh[2]) -> DrawSet(n)]} : sh \in Shapes}

ScorerLines(n) == [i \in 1..n |-> 4 * i + 1]

InitScorer ==
    \E n \in 1..MaxLocations :
      \E truth \in SUBSET Range(ScorerLines(n)) :
        LET rs == [t \in DOMAIN ScorerTrialed |->
                      [config |-> to_dict(from_index(ScorerTrialed[t])),
                       detected_lines |-> ScorerLines(n)]]
            r  == prepare_data_for_model(rs, truth)
        IN  /\ results = rs
            /\ true_errors = truth
            /\ observations = r.observations
            /\ location_idx = r.location_idx
            /\ factor_matrix = r.factor_matrix
            /\ location_map = r.location_map
            /\ is_true_error = r.is_true_error
            /\ all_locations = r.all_locations
            /\ n_locations = Len(r.all_locations)
            /\ row_trial = r.row_trial
            /\ trace \in Traces(n)
            /\ min_recall = <<1, 10>>
            /\ pc = "analyze"
            /\ raised = "none"
            /\ posterior = Unbound
            /\ config_results = Unbound
            /\ key_order = Unbound
            /\ memo = Unbound
            /\ calls = 0
            /\ flat_samples = Unbound
            /\ model = Unbound
            /\ sample_stats = Unbound
            /\ summary = Unbound
            /\ results_file = Unbound
            /\ ToolsUnbound
            /\ threshold_low = Unbound
            /\ threshold_high = Unbound
            /\ uncertain_configs = Unbound

\* Line 439.
MainAnalyze ==
    /\ pc = "analyze"
    /\ \E r \in {analyze_all_configs(trace, is_true_error, n_locations, min_recall)} :
           IF r.raised # "none"
           THEN /\ pc' = "raised"
                /\ raised' = r.raised
                /\ UNCHANGED <<posterior, config_results, key_order>>
           ELSE /\ pc' = "identify"
                /\ config_results' = r.results
                /\ key_order' = r.order
                /\ posterior' = r.posterior
                /\ UNCHANGED raised
    /\ UNCHANGED <<results, true_errors, trace, min_recall>>
    /\ UNCHANGED extractVars
    /\ UNCHANGED callVars
    /\ UNCHANGED mainVars
    /\ UNCHANGED rankerVars
    /\ UNCHANGED toolVars

NextScorer == MainAnalyze

SpecScorer == InitScorer /\ [][NextScorer]_vars

(***************************************************************************)
(* A caller of analyze_all_configs that calls it again and again on one    *)
(* trace and one is_true_error array, choosing min_recall at each call.    *)
(***************************************************************************)
MinRecallChoices == {<<1, 10>>, <<1, 2>>}

\* Traces of one chain and one sample.
SingleDrawTraces(n) ==
    {TraceOf(f, 1, 1) : f \in [(1..1) \X (1..1) -> DrawSet(n)]}

InitRescore ==
    \E n \in 1..MaxLocations :
      \E truth \in SUBSET Range(ScorerLines(n)) :
        LET rs == [t \in DOMAIN ScorerTrialed |->
                      [config |-> to_dict(from_index(ScorerTrialed[t])),
                       detected_lines |-> ScorerLines(n)]]
            r  == prepare_data_for_model(rs, truth)
        IN  /\ results = rs
            /\ true_errors = truth
            /\ observations = r.observations
            /\ location_idx = r.location_idx
            /\ factor_matrix = r.factor_matrix
            /\ location_map = r.location_map
            /\ is_true_error = r.is_true_error
            /\ all_locations = r.all_locations
            /\ n_locations = Len(r.all_locations)
            /\ row_trial = r.row_trial
            /\ trace \in SingleDrawTraces(n)
            /\ min_recall = Unbound
            /\ pc = "analyze"
            /\ raised = "none"
            /\ posterior = Unbound
            /\ config_results = Unbound
            /\ key_order = Unbound
            /\ memo = Unbound
            /\ calls = 0
            /\ flat_samples = Unbound
            /\ model = Unbound
            /\ sample_stats = Unbound
            /\ summary = Unbound
            /\ results_file = Unbound
            /\ ToolsUnbound
            /\ threshold_low = Unbound
            /\ threshold_high = Unbound
            /\ uncertain_configs = Unbound

\* One call analyze_all_configs(trace, is_true_error, n_locations, m).  The
\* function assigns to locals only (lines 311-347 and 262-299): the trace
\* and is_true_error are read, never written.
CallAnalyzeAllConfigs ==
    /\ pc = "analyze"
    /\ calls < MaxCalls
    /\ \E m \in MinRecallChoices :
         \E r \in {analyze_all_configs(trace, is_true_error, n_locations, m)} :
           IF r.raised # "none"
           THEN /\ pc' = "raised"
                /\ raised' = r.raised
                /\ UNCHANGED <<min_recall, posterior, config_results, key_order, memo>>
           ELSE /\ min_recall' = m
                /\ config_results' = r.results
                /\ key_order' = r.order
                /\ posterior' = r.posterior
                /\ memo' = IF m \in DOMAIN memo THEN memo ELSE memo @@ (m :> r.results)
                /\ UNCHANGED <<pc, raised>>
    /\ calls' = calls + 1
    /\ UNCHANGED <<results, true_errors, trace, flat_samples>>
    /\ UNCHANGED mainVars
    /\ UNCHANGED extractVars
    /\ UNCHANGED rankerVars
    /\ UNCHANGED toolVars

NextRescore == CallAnalyzeAllConfigs

SpecRescore == InitRescore /\ [][NextRescore]_vars

(***************************************************************************)
(* A caller of compute_precision_and_recall_for_config on a trace of       *)
(* several chains and samples whose draws differ.                          *)
(***************************************************************************)
\* Two draws that differ in the intercept, in the effect of every location
\* but the first, and in every factor effect that is not zero.
GridDraws(n) ==
    {d \in DrawSet(n) : d.alpha = -28 \/ (d.alpha = 0 /\ d.u_s[1] = 0)}

GridTraces(n) ==
    UNION {{TraceOf(f, C, S) : f \in [(1..C) \X (1..S) -> GridDraws(n)]} :
              <<C, S>> \in (1..MaxChains) \X (1..MaxSamples)}

ScoredConfigs == {0, 127}

InitFlatten ==
    \E n \in 1..MaxLocations :
      \E truth \in SUBSET Range(ScorerLines(n)) :
        LET rs == [t \in DOMAIN ScorerTrialed |->
                      [config |-> to_dict(from_index(ScorerTrialed[t])),
                       detected_lines |-> ScorerLines(n)]]
            r  == prepare_data_for_model(rs, truth)
        IN  /\ results = rs
            /\ true_errors = truth
            /\ observations = r.observations
            /\ location_idx = r.location_idx
            /\ factor_matrix = r.factor_matrix
            /\ location_map = r.location_map
            /\ is_true_error = r.is_true_error
            /\ all_locations = r.all_locations
            /\ n_locations = Len(r.all_locations)
            /\ row_trial = r.row_trial
            /\ trace \in GridTraces(n)
            /\ min_recall = Unbound
            /\ pc = "compute"
            /\ raised = "none"
            /\ posterior = Unbound
            /\ config_results = Unbound
            /\ key_order = Unbound
            /\ memo = Unbound
            /\ calls = 0
            /\ flat_samples = Unbound
            /\ model = Unbound
            /\ sample_stats = Unbound
            /\ summary = Unbound
            /\ results_file = Unbound
            /\ ToolsUnbound
            /\ threshold_low = Unbound
            /\ threshold_high = Unbound
            /\ uncertain_configs = Unbound

\* One call compute_precision_and_recall_for_config(trace, config_dict,
\* is_true_error, n_locations), lines 254-301; flat_samples keeps the
\* locals of lines 276-279.
CallComputePrecisionAndRecall ==
    /\ pc = "compute"
    /\ \E c \in ScoredConfigs :
         \E r \in {compute_precision_and_recall_for_config(
                       trace, decode_config(c), is_true_error, n_locations)} :
           IF r.raised # "none"
           THEN /\ pc' = "raised"
                /\ raised' = r.raised
                /\ UNCHANGED <<posterior, flat_samples>>
           ELSE /\ pc' = "computed"
                /\ posterior' = (c :> [precision |-> r.precision, recall |-> r.recall])
                /\ flat_samples' = flatten_posterior(trace, n_locations)
                /\ UNCHANGED raised
    /\ UNCHANGED <<results, true_errors, trace, min_recall, config_results, key_order>>
    /\ UNCHANGED <<memo, calls>>
    /\ UNCHANGED extractVars
    /\ UNCHANGED mainVars
    /\ UNCHANGED rankerVars
    /\ UNCHANGED toolVars

NextFlatten == CallComputePrecisionAndRecall

SpecFlatten == InitFlatten /\ [][NextFlatten]_vars

(***************************************************************************)
(* Uncertainty Ranker.  A probability of the table is the float64 nearest  *)
(* to a ratio <<k, d>> (the mean of d booleans of which k are True, or a   *)
(* decimal literal) and is held as that ratio.  Division and literals are  *)
(* correctly rounded, so for the ratios used here float comparison agrees  *)
(* with comparison of the ratios.                                          *)
(***************************************************************************)
\* a < b on the floats of two ratios.
less(a, b) == a[1] * b[2] < b[1] * a[2]

\* Line 358, the test of inclusion.
in_band_inclusive(threshold_lo, prob, threshold_hi) ==
    ~less(prob, threshold_lo) /\ ~less(threshold_hi, prob)
in_band(threshold_lo, prob, threshold_hi) ==
    less(threshold_lo, prob) /\ less(prob, threshold_hi)

\* Line 360: abs(prob - 0.5) in float64, exactly, for every ratio in lowest
\* terms <<k, d>> with d in 1..8, 10 or 20.  An entry <<k, d, hi, lo>> says
\* that the result is (hi * 10^9 + lo) * 2^-60.  The float of a ratio is
\* not the ratio: abs(1/3 - 0.5) and abs(2/3 - 0.5) differ, abs(0.4 - 0.5)
\* and abs(0.6 - 0.5) do not.
UncertaintyTable ==
    <<<<0, 1, 576460752, 303423488>>, <<1, 20, 518814677, 73081152>>, <<1, 10, 461168601, 842738816>>,
      <<1, 8, 432345564, 227567616>>, <<1, 7, 411757680, 216731072>>, <<3, 20, 403522526, 612396416>>,
      <<1, 6, 384307168, 202282368>>, <<1, 5, 345876451, 382054080>>, <<1, 4, 288230376, 151711744>>,
      <<2, 7, 247054608, 130038656>>, <<3, 10, 230584300, 921369408>>, <<1, 3, 192153584, 101141184>>,
      <<7, 20, 172938225, 691027072>>, <<3, 8, 144115188, 75855872>>, <<2, 5, 115292150, 460684672>>,
      <<3, 7, 82351536, 43346240>>, <<9, 20, 57646075, 230342336>>, <<1, 2, 0, 0>>,
      <<11, 20, 57646075, 230342400>>, <<4, 7, 82351536, 43346176>>, <<3, 5, 115292150, 460684672>>,
      <<5, 8, 144115188, 75855872>>, <<13, 20, 172938225, 691027072>>, <<2, 3, 192153584, 101141120>>,
      <<7, 10, 230584300, 921369344>>, <<5, 7, 247054608, 130038656>>, <<3, 4, 288230376, 151711744>>,
      <<4, 5, 345876451, 382054144>>, <<5, 6, 384307168, 202282368>>, <<17, 20, 403522526, 612396416>>,
      <<6, 7, 411757680, 216731008>>, <<7, 8, 432345564, 227567616>>, <<9, 10, 461168601, 842738816>>,
      <<19, 20, 518814677, 73081088>>, <<1, 1, 576460752, 303423488>>>>

uncertainty(prob) ==
    LET e == CHOOSE i \in DOMAIN UncertaintyTable :
                 UncertaintyTable[i][1] * prob[2] = UncertaintyTable[i][2] * prob[1]
    IN  <<UncertaintyTable[e][3], UncertaintyTable[e][4]>>

\* Line 364: list.sort(key=lambda x: x[1]), a stable sort on the second
\* component: an element moves behind the elements of smaller key and
\* behind the earlier elements of equal key.
sort_not_applied(uncertain) == uncertain
sort_ties_reversed(uncertain) ==
    LET rank(i) ==
            Cardinality({j \in DOMAIN uncertain : FxLess(uncertain[j][2], uncertain[i][2])})
            + Cardinality({j \in DOMAIN uncertain :
                              j > i /\ uncertain[j][2] = uncertain[i][2]})
            + 1
        ranks == Array([i \in DOMAIN uncertain |-> rank(i)])
    IN  Array([r \in DOMAIN uncertain |->
            uncertain[CHOOSE i \in DOMAIN uncertain : ranks[i] = r]])
sort(uncertain) ==
    LET rank(i) ==
            Cardinality({j \in DOMAIN uncertain : FxLess(uncertain[j][2], uncertain[i][2])})
            + Cardinality({j \in DOMAIN uncertain :
                              j < i /\ uncertain[j][2] = uncertain[i][2]})
            + 1
        ranks == Array([i \in DOMAIN uncertain |-> rank(i)])
    IN  Array([r \in DOMAIN uncertain |->
            uncertain[CHOOSE i \in DOMAIN uncertain : ranks[i] = r]])

\* Lines 350-367.  config_items is config_results.items(): the pairs
\* <<config_idx, stats>> in the insertion order of the dict.
items(table, order) == Array([i \in DOMAIN order |-> <<order[i], table[order[i]]>>])

identify_uncertain_configs(config_items, threshold_lo, threshold_hi) ==
    LET selected ==
            SelectSeq(config_items,
                LAMBDA it : in_band(threshold_lo, it[2]["prob_precision_gt_80"],
                                    threshold_hi))
        uncertain ==
            Array([i \in DOMAIN selected |->
                <<selected[i][1],
                  uncertainty(selected[i][2]["prob_precision_gt_80"]),
                  selected[i][2]["prob_precision_gt_80"]>>])
        ordered == sort(uncertain)
    IN  Array([i \in DOMAIN ordered |-> <<ordered[i][1], ordered[i][3]>>])

(***************************************************************************)
(* A caller of identify_uncertain_configs on a table of up to MaxGiven     *)
(* entries keyed 0, 1, ... in that order, as every table of the repository *)
(* is built.                                                               *)
(***************************************************************************)
ProbChoices ==
    {<<1, 20>>, <<1, 10>>, <<1, 3>>, <<2, 5>>, <<1, 2>>,
     <<3, 5>>, <<2, 3>>, <<9, 10>>, <<19, 20>>}
ThresholdChoices == {<<<<1, 10>>, <<9, 10>>>>, <<<<1, 20>>, <<19, 20>>>>}

InitRanker ==
    \E k \in 0..MaxGiven :
      \E probs \in [0..(k - 1) -> ProbChoices] :
        \E th \in ThresholdChoices :
            /\ config_results =
                  Array([c \in 0..(k - 1) |-> [prob_precision_gt_80 |-> probs[c]]])
            /\ key_order = Array([i \in 1..k |-> i - 1])
            /\ threshold_low = th[1]
            /\ threshold_high = th[2]
            /\ uncertain_configs = Unbound
            /\ pc = "identify"
            /\ raised = "none"
            /\ results = Unbound
            /\ true_errors = Unbound
            /\ observations = Unbound
            /\ location_idx = Unbound
            /\ factor_matrix = Unbound
            /\ location_map = Unbound
            /\ is_true_error = Unbound
            /\ all_locations = Unbound
            /\ n_locations = Unbound
            /\ row_trial = Unbound
            /\ trace = Unbound
            /\ min_recall = Unbound
            /\ posterior = Unbound
            /\ memo = Unbound
            /\ calls = 0
            /\ flat_samples = Unbound
            /\ model = Unbound
            /\ sample_stats = Unbound
            /\ summary = Unbound
            /\ results_file = Unbound
            /\ ToolsUnbound

CallIdentifyUncertainConfigs ==
    /\ pc = "identify"
    /\ uncertain_configs' =
          identify_uncertain_configs(items(config_results, key_order),
                                     threshold_low, threshold_high)
    /\ pc' = "summary"
    /\ UNCHANGED <<raised, results, true_errors, threshold_low, threshold_high>>
    /\ UNCHANGED extractVars
    /\ UNCHANGED scorerVars
    /\ UNCHANGED callVars
    /\ UNCHANGED mainVars
    /\ UNCHANGED toolVars

NextRanker == CallIdentifyUncertainConfigs

SpecRanker == InitRanker /\ [][NextRanker]_vars

(***************************************************************************)
(* main() as a whole, lines 370-535, on a small set of corpora.  The       *)
(* sampler is external: run_mcmc returns some trace of the right shape     *)
(* with the sampler's diagnostics beside it, or pm.sample raises.          *)
(***************************************************************************)
MainTrials ==
    {[config |-> to_dict(from_index(1)), detected_lines |-> d] :
        d \in {<<>>, <<5>>, <<9, 5>>}}
    \cup {[config |-> DropKey(to_dict(from_index(1)), "use_reasoning"),
           detected_lines |-> <<5>>]}

MainCorpora == SeqsUpTo(MainTrials, 1)

\* Traces of one chain and one or two samples.
MainTraces(n) ==
    SingleDrawTraces(n)
    \cup {TraceOf(f, 1, 2) : f \in [(1..1) \X (1..2) -> DrawSet(n)]}

InitMain ==
    /\ results \in MainCorpora
    /\ true_errors \in GroundTruths
    /\ pc = "prepare"
    /\ raised = "none"
    /\ observations = Unbound
    /\ location_idx = Unbound
    /\ factor_matrix = Unbound
    /\ location_map = Unbound
    /\ is_true_error = Unbound
    /\ all_locations = Unbound
    /\ n_locations = Unbound
    /\ row_trial = Unbound
    /\ trace = Unbound
    /\ min_recall = <<1, 10>>
    /\ posterior = Unbound
    /\ config_results = Unbound
    /\ key_order = Unbound
    /\ memo = Unbound
    /\ calls = 0
    /\ flat_samples = Unbound
    /\ model = Unbound
    /\ sample_stats = Unbound
    /\ summary = Unbound
    /\ results_file = Unbound
    /\ ToolsUnbound
    /\ threshold_low = Unbound
    /\ threshold_high = Unbound
    /\ uncertain_configs = Unbound

\* Lines 403-404: input() returns when the user presses Enter and raises
\* KeyboardInterrupt on Ctrl+C; until one of the two happens main() waits.
MainInput_then_sample ==
    /\ pc = "input"
    /\ pc' = "sample"
    /\ UNCHANGED <<raised, results, true_errors>>
    /\ UNCHANGED extractVars
    /\ UNCHANGED scorerVars
    /\ UNCHANGED callVars
    /\ UNCHANGED mainVars
    /\ UNCHANGED rankerVars
    /\ UNCHANGED toolVars
MainInput ==
    /\ pc = "input"
    /\ \/ pc' = "build" /\ UNCHANGED raised
       \/ pc' = "raised" /\ raised' = "KeyboardInterrupt"
    /\ UNCHANGED <<results, true_errors>>
    /\ UNCHANGED extractVars
    /\ UNCHANGED scorerVars
    /\ UNCHANGED callVars
    /\ UNCHANGED mainVars
    /\ UNCHANGED rankerVars
    /\ UNCHANGED toolVars

\* Line 409.
MainBuild ==
    /\ pc = "build"
    /\ model' = [observations |-> observations,
                 location_idx |-> location_idx,
                 factor_matrix |-> factor_matrix,
                 n_locations |-> n_locations]
    /\ pc' = "sample"
    /\ UNCHANGED <<raised, results, true_errors>>
    /\ UNCHANGED <<sample_stats, summary, results_file>>
    /\ UNCHANGED extractVars
    /\ UNCHANGED scorerVars
    /\ UNCHANGED callVars
    /\ UNCHANGED rankerVars
    /\ UNCHANGED toolVars

\* What pm.sample leaves in trace.sample_stats: whether the chains
\* converged.  The sampler only records it; nothing in run_mcmc reads it.
SamplerDiagnostics == {[converged |-> TRUE], [converged |-> FALSE]}

\* What can end pm.sample early; run_mcmc has no try/except.
SamplerExceptions == {"KeyboardInterrupt", "SamplingError"}

\* Lines 247-251 and 414: run_mcmc returns what pm.sample returns, and an
\* exception of pm.sample leaves the assignment of line 414 undone.
MainSample_keeps_partial ==
    /\ pc = "sample"
    /\ \/ /\ trace' \in MainTraces(model.n_locations)
          /\ sample_stats' \in SamplerDiagnostics
          /\ pc' = "analyze"
          /\ UNCHANGED raised
       \/ /\ trace' \in SingleDrawTraces(model.n_locations)
          /\ sample_stats' \in SamplerDiagnostics
          /\ raised' \in SamplerExceptions
          /\ pc' = "analyze"
    /\ UNCHANGED <<results, true_errors>>
    /\ UNCHANGED <<min_recall, posterior, config_results, key_order>>
    /\ UNCHANGED <<model, summary, results_file>>
    /\ UNCHANGED extractVars
    /\ UNCHANGED callVars
    /\ UNCHANGED rankerVars
    /\ UNCHANGED toolVars
MainSample ==
    /\ pc = "sample"
    /\ \/ /\ trace' \in MainTraces(model.n_locations)
          /\ sample_stats' \in SamplerDiagnostics
          /\ pc' = "analyze"
          /\ UNCHANGED raised
       \/ /\ raised' \in SamplerExceptions
          /\ pc' = "raised"
          /\ UNCHANGED <<trace, sample_stats>>
    /\ UNCHANGED <<results, true_errors>>
    /\ UNCHANGED <<min_recall, posterior, config_results, key_order>>
    /\ UNCHANGED <<model, summary, results_file>>
    /\ UNCHANGED extractVars
    /\ UNCHANGED callVars
    /\ UNCHANGED rankerVars
    /\ UNCHANGED toolVars

\* Line 442: the thresholds are the defaults 0.1 and 0.9 of line 350.
MainIdentify ==
    /\ pc = "identify"
    /\ threshold_low' = <<1, 10>>
    /\ threshold_high' = <<9, 10>>
    /\ uncertain_configs' =
          identify_uncertain_configs(items(config_results, key_order),
                                     <<1, 10>>, <<9, 10>>)
    /\ pc' = "summary"
    /\ UNCHANGED <<raised, results, true_errors>>
    /\ UNCHANGED extractVars
    /\ UNCHANGED scorerVars
    /\ UNCHANGED callVars
    /\ UNCHANGED mainVars
    /\ UNCHANGED toolVars

\* sum(1 for s in config_results.values() if s[field] > low), and with
\* s[field] < high.
count_above(table, field, low) ==
    Cardinality({c \in DOMAIN table : less(low, table[c][field])})
count_below(table, field, high) ==
    Cardinality({c \in DOMAIN table : less(table[c][field], high)})

\* Lines 449-453: the rollup counts.
rollup_with_inclusive_low(table, uncertain) ==
    [high_both_count |-> count_above(table, "prob_both", <<9, 10>>),
     low_both_count |-> count_below(table, "prob_both", <<1, 10>>),
     high_precision_only_count |->
        count_above(table, "prob_precision_gt_80", <<9, 10>>),
     low_precision_count |->
        Cardinality(DOMAIN table)
            - count_above(table, "prob_precision_gt_80", <<1, 10>>),
     uncertain_count |-> Len(uncertain)]
rollup(table, uncertain) ==
    [high_both_count |-> count_above(table, "prob_both", <<9, 10>>),
     low_both_count |-> count_below(table, "prob_both", <<1, 10>>),
     high_precision_only_count |->
        count_above(table, "prob_precision_gt_80", <<9, 10>>),
     low_precision_count |->
        count_below(table, "prob_precision_gt_80", <<1, 10>>),
     uncertain_count |-> Len(uncertain)]

\* Lines 444-505: the counts; the rest of these lines only prints.
MainSummary ==
    /\ pc = "summary"
    /\ summary' = rollup(config_results, uncertain_configs)
    /\ pc' = "save"
    /\ UNCHANGED <<raised, results, true_errors>>
    /\ UNCHANGED <<model, sample_stats, results_file>>
    /\ UNCHANGED extractVars
    /\ UNCHANGED scorerVars
    /\ UNCHANGED callVars
    /\ UNCHANGED rankerVars
    /\ UNCHANGED toolVars

\* str(k) of a non-negative int: its decimal digits.
RECURSIVE str(_)
str(k) == IF k < 10 THEN <<k>> ELSE Append(str(k \div 10), k % 10)

\* Lines 513-519: mean and std of the flattened samples of one factor
\* effect; the mean as the ratio <<sum, n>>, the standard deviation by its
\* square <<n * sum of squares - sum^2, n^2>>.
factor_effect(samples) ==
    LET n == Len(samples)
        total == IntSum(samples)
        squares == IntSum(Array([d \in DOMAIN samples |-> samples[d] * samples[d]]))
    IN  [mean |-> <<total, n>>, std_squared |-> <<n * squares - total * total, n * n>>]

\* Lines 510-531: the object handed to json.dump.  Nothing of
\* trace.sample_stats is among its keys.
analysis_json(tr, table, order, uncertain, counts) ==
    [factor_effects |->
        [fname \in Range(factor_names) |-> factor_effect(flatten(tr[fname]))],
     config_results |->
        [k \in {str(c) : c \in Range(order)} |->
            table[CHOOSE c \in Range(order) : str(c) = k]],
     uncertain_configs |->
        Array([i \in DOMAIN uncertain |->
            [config_idx |-> uncertain[i][1], prob |-> uncertain[i][2]]]),
     summary |-> counts]

\* Lines 507-535.
MainSave ==
    /\ pc = "save"
    /\ results_file' =
          analysis_json(trace, config_results, key_order, uncertain_configs, summary)
    /\ pc' = "saved"
    /\ UNCHANGED <<raised, results, true_errors>>
    /\ UNCHANGED <<model, sample_stats, summary>>
    /\ UNCHANGED extractVars
    /\ UNCHANGED scorerVars
    /\ UNCHANGED callVars
    /\ UNCHANGED rankerVars
    /\ UNCHANGED toolVars

NextMain ==
    \/ MainPrepare
    \/ MainPriorCheck
    \/ MainInput
    \/ MainBuild
    \/ MainSample
    \/ MainAnalyze
    \/ MainIdentify
    \/ MainSummary
    \/ MainSave

SpecMain == InitMain /\ [][NextMain]_vars

\* main() is sequential code: at every position but the wait of input() it
\* runs on, returning from the call it is in or raising, so the position
\* eventually changes.  Nothing makes the user press a key.
ProgramPositions ==
    {"prepare", "prior_check", "build", "sample", "analyze", "identify",
     "summary", "save"}

ProgramStep ==
    /\ pc \in ProgramPositions
    /\ pc' \in ProgramPositions \cup {"input", "saved", "raised"}
    /\ pc' # pc

FairSpecMain == SpecMain /\ WF_pc(ProgramStep)

(***************************************************************************)
(* Properties of the Observation Extractor (specification Spec).           *)
(***************************************************************************)
\* prepare_data_for_model has returned its table to main().  Only
\* extraction raises KeyError, only the prior check raises IndexError.
Prepared ==
    \/ pc \in {"prior_check", "input"}
    \/ pc = "raised" /\ raised = "IndexError"

\* The distinct integers of the union of all trials' detected_lines.
FlaggedUnion ==
    {x \in Lines : \E t \in DOMAIN results :
                     \E j \in DOMAIN results[t].detected_lines :
                        results[t].detected_lines[j] = x}

\* Some trial's config lacks one of the seven factor keys.
SomeConfigMalformed ==
    \E t \in DOMAIN results : ~(FactorNames \subseteq DOMAIN results[t].config)

\* C1: the number of locations produced by prepare_data_for_model equals
\* the number of distinct integers in the union of all trials'
\* detected_lines, however often a line is repeated.
C1_LocationCountIsDistinctUnion ==
    Prepared =>
        /\ Len(all_locations) = Cardinality(FlaggedUnion)
        /\ n_locations = Cardinality(FlaggedUnion)

\* C1 witness: line 5 is repeated within trial 1 and again in trial 2.
C1_Witness ==
    /\ Prepared
    /\ Len(results) = 2
    /\ results[1].detected_lines = <<5, 5>>
    /\ results[2].detected_lines = <<9, 5>>
    /\ n_locations = 2

\* C2: implicit-negative invariant: every location index 0..n_locations-1
\* has exactly as many observation rows as there are trials.
C2_RowsPerLocationEqualsTrials ==
    Prepared =>
        \A l \in 0..(n_locations - 1) :
            Cardinality({i \in DOMAIN location_idx : location_idx[i] = l})
                = Len(results)

\* C2 witness: two trials, two locations, one of them flagged by one trial
\* only (so a row with detected = 0 exists).
C2_Witness ==
    /\ Prepared
    /\ Len(results) = 2
    /\ n_locations = 2
    /\ \E i \in DOMAIN observations : observations[i] = 0

\* C3: for every trial t and every location of the union there is exactly
\* one row, its detected bit is 1 iff the location is in trial t's
\* detected_lines, and the table has (number of trials) x n_locations rows.
C3_OneRowPerTrialAndLocation ==
    Prepared =>
        /\ Len(observations) = Len(results) * n_locations
        /\ Len(location_idx) = Len(observations)
        /\ Len(factor_matrix) = Len(observations)
        /\ \A t \in DOMAIN results : \A loc \in FlaggedUnion :
              /\ loc \in DOMAIN location_map
              /\ LET rows == {i \in DOMAIN observations :
                                 /\ row_trial[i] = t
                                 /\ location_idx[i] = location_map[loc]}
                 IN  /\ Cardinality(rows) = 1
                     /\ \A i \in rows :
                           (observations[i] = 1) <=>
                               (\E j \in DOMAIN results[t].detected_lines :
                                    results[t].detected_lines[j] = loc)

\* C3 witness: a table holding a detected and a not-detected row.
C3_Witness ==
    /\ Prepared
    /\ Len(results) = 2
    /\ \E i, j \in DOMAIN observations :
          observations[i] = 1 /\ observations[j] = 0

\* C4: the location map is the order-preserving bijection from the flagged
\* lines onto 0..n_locations-1 and is_true_error is aligned to it; trials
\* {5} and {5,9} with ground truth {5} give n_locations = 2,
\* is_true_error = [True, False] and 4 rows.
ScenarioA ==
    /\ results = <<[config |-> to_dict(from_index(0)), detected_lines |-> <<5>>],
                   [config |-> to_dict(from_index(1)), detected_lines |-> <<5, 9>>]>>
    /\ true_errors = {5}

C4_LocationMapOrderPreserving ==
    Prepared =>
        /\ DOMAIN location_map = FlaggedUnion
        /\ {location_map[loc] : loc \in DOMAIN location_map}
               = 0..(n_locations - 1)
        /\ \A a, b \in DOMAIN location_map :
              a < b => location_map[a] < location_map[b]
        /\ \A loc \in DOMAIN location_map :
              /\ all_locations[location_map[loc] + 1] = loc
              /\ (is_true_error[location_map[loc] + 1] = 1) <=> (loc \in true_errors)
        /\ Len(is_true_error) = n_locations
        /\ ScenarioA =>
              /\ n_locations = 2
              /\ is_true_error = <<1, 0>>
              /\ Len(observations) = 4

\* C4 witness: Scenario A has been extracted.
C4_Witness == Prepared /\ ScenarioA

\* C5: with an empty trial sequence prepare_data_for_model fails instead
\* of returning a table, so main() never reaches the prior check (or any
\* later stage) on an empty corpus.
C5_EmptyCorpusFails ==
    (results = <<>>) => ~Prepared

\* C6: when some trial's config lacks a factor key, extraction aborts
\* with the malformed-input error (KeyError), no table is returned, no
\* default is substituted, and main() stops before any later stage.
C6_MalformedConfigAborts ==
    (SomeConfigMalformed /\ pc # "prepare") =>
        /\ pc = "raised"
        /\ raised = "KeyError"
        /\ observations = Unbound
        /\ factor_matrix = Unbound

\* C6 witness: the second trial's config is malformed, the first is not;
\* extraction has aborted.
C6_Witness ==
    /\ pc = "raised"
    /\ Len(results) = 2
    /\ FactorNames \subseteq DOMAIN results[1].config
    /\ ~(FactorNames \subseteq DOMAIN results[2].config)
    /\ results[1].detected_lines = <<5>>

(***************************************************************************)
(* Properties of the configuration decoders and of the Configuration       *)
(* Scorer (specification SpecScorer).                                      *)
(***************************************************************************)
\* The integer whose bit k-1 is f[k].
Encode(f) == IntSum([k \in 1..NumFactors |-> f[k] * 2 ^ (k - 1)])

\* A quotient that is a number in [0, 1].
InUnitInterval(r) ==
    r.kind = "num" /\ FxLeq(FxZero, r.num) /\ FxLeq(r.num, r.den)

\* C7: configuration index and factor vector correspond 1:1, bit k <=>
\* factor k in the order of extract_factor_values: every c in [0,128),
\* decoded by analyze_all_configs, by PromptConfig.from_index(c).to_dict()
\* or by get_config(c) and re-encoded by extract_factor_values, gives a
\* vector f with sum f[k]*2^k = c; the decoders agree; distinct indices
\* give distinct vectors.
C7_IndexFactorBijection ==
    pc = "identify" =>
        /\ \A c \in 0..(NumConfigs - 1) :
              /\ c \in DOMAIN config_results
              /\ LET viaScorer  == extract_factor_values(config_results[c].config)
                     viaPrompt  == extract_factor_values(to_dict(from_index(c)))
                     viaCompare == extract_factor_values(to_dict(get_config(c)))
                 IN  /\ viaScorer.raised = "none"
                     /\ viaPrompt.raised = "none"
                     /\ viaCompare.raised = "none"
                     /\ Encode(viaScorer.value) = c
                     /\ Encode(viaPrompt.value) = c
                     /\ Encode(viaCompare.value) = c
                     /\ viaScorer.value = viaPrompt.value
                     /\ viaPrompt.value = viaCompare.value
        /\ Cardinality({extract_factor_values(config_results[c].config).value :
                            c \in DOMAIN config_results}) = NumConfigs

\* C7 witness: the scorer has decoded 5 = 1 + 4 as arrow_format and
\* avoid_style, as PromptConfig.from_index does.
C7_Witness ==
    /\ pc = "identify"
    /\ config_results[5].config["arrow_format"]
    /\ config_results[5].config["avoid_style"]
    /\ ~config_results[5].config["structured_output"]
    /\ config_results[5].config = to_dict(from_index(5))

\* C8: analyze_all_configs returns exactly 128 entries, keyed by every
\* integer 0..127 once, whichever configurations were trialed, and each
\* entry's config is the decoding of its own key.
C8_TableHasAll128Configs ==
    pc = "identify" =>
        /\ DOMAIN config_results = 0..127
        /\ Cardinality(DOMAIN config_results) = 128
        /\ \A c \in DOMAIN config_results :
              /\ DOMAIN config_results[c].config = FactorNames
              /\ \A k \in 1..NumFactors :
                    config_results[c].config[FactorOrder[k]]
                        <=> ((c \div 2 ^ (k - 1)) % 2 = 1)

\* C8 witness: the corpus holds trials of one configuration only, and the
\* table still has the entry of configuration 127.
C8_Witness ==
    /\ pc = "identify"
    /\ Cardinality({results[t].config : t \in DOMAIN results}) = 1
    /\ 127 \in DOMAIN config_results
    /\ config_results[127].config["use_reasoning"]
    /\ config_results[0].config # results[1].config

\* C9: for every draw d and configuration c, 0 <= precision[d,c] <= 1 and
\* 0 <= recall[d,c] <= 1, for every is_true_error array.
C9_PrecisionRecallInUnitInterval ==
    pc = "identify" =>
        \A c \in DOMAIN posterior :
            \A d \in DOMAIN posterior[c].precision :
                /\ InUnitInterval(posterior[c].precision[d])
                /\ InUnitInterval(posterior[c].recall[d])

\* C10: Scenario B: when every flagged location is a true error,
\* precision[d,c] equals exactly 1 for every configuration and draw,
\* whatever the fitted parameters are.
C10_AllTrueErrorsPrecisionIsOne ==
    (pc = "identify" /\ \A l \in DOMAIN is_true_error : is_true_error[l] = 1) =>
        \A c \in DOMAIN posterior :
            \A d \in DOMAIN posterior[c].precision :
                /\ posterior[c].precision[d].kind = "num"
                /\ posterior[c].precision[d].num = posterior[c].precision[d].den

\* Every location effect and every factor effect is zero in every draw.
ZeroVarianceComponents ==
    \A c \in DOMAIN trace["alpha"] : \A k \in DOMAIN trace["alpha"][c] :
        /\ \A l \in DOMAIN trace["u_l"][c][k] : trace["u_l"][c][k][l] = 0
        /\ \A i \in 1..NumFactors : trace[factor_names[i]][c][k] = 0

\* The fields of a table entry that summarise precision and recall.
StatisticNames ==
    {"prob_precision_gt_80", "prob_recall_gt_min", "prob_both",
     "mean_precision", "std_precision", "median_precision",
     "mean_recall", "std_recall", "median_recall"}

\* The number of flagged locations that are true errors.
TrueErrorCount == Cardinality({l \in DOMAIN is_true_error : is_true_error[l] = 1})

\* C11: Scenario C: when all location effects and all seven factor effects
\* are zero in every draw, every location under every configuration has
\* detection probability sigmoid(alpha[d]), and the scorer reports the same
\* precision and recall statistics for all 128 configurations.
C11_ZeroEffectsGiveIdenticalScores ==
    (pc = "identify" /\ ZeroVarianceComponents) =>
        \A c \in DOMAIN config_results :
            /\ posterior[c] = posterior[0]
            /\ \A f \in StatisticNames : config_results[c][f] = config_results[0][f]
            /\ \A d \in DOMAIN posterior[c].recall :
                  LET p == sigmoid(flatten(trace["alpha"])[d])
                  IN  /\ posterior[c].recall[d].num = FxTimes(TrueErrorCount, p)
                      /\ posterior[c].precision[d].num = FxTimes(TrueErrorCount, p)
                      /\ posterior[c].precision[d].den
                            = maximum(FxTimes(n_locations, p), Epsilon)

\* C11 witness: two locations, one a true error, two draws with different
\* intercepts and no effects; configurations 0 and 127 have been scored.
C11_Witness ==
    /\ pc = "identify"
    /\ ZeroVarianceComponents
    /\ n_locations = 2
    /\ TrueErrorCount = 1
    /\ flatten(trace["alpha"]) = <<0, -800>>
    /\ config_results[127]["prob_precision_gt_80"] = config_results[0]["prob_precision_gt_80"]
    /\ posterior[127].recall[1].num = sigmoid(0)

\* C12: a numerically degenerate draw never becomes a fatal error and never
\* corrupts the summary: for every draw, also one whose detection
\* probabilities sum to zero, precision is finite, the scorer raises no
\* error, and every summary statistic of every configuration (mean, std,
\* median, probabilities, of precision and of recall) is a finite number.
C12_DegenerateDrawNeverCorruptsSummary ==
    /\ pc # "raised"
    /\ pc = "identify" =>
          \A c \in DOMAIN config_results :
              /\ \A d \in DOMAIN posterior[c].precision :
                    posterior[c].precision[d].kind = "num"
              /\ \A f \in {"mean_precision", "std_precision", "median_precision",
                           "mean_recall", "std_recall", "median_recall"} :
                    config_results[c][f].kind = "num"
              /\ \A f \in {"prob_precision_gt_80", "prob_recall_gt_min", "prob_both"} :
                    /\ config_results[c][f][2] > 0
                    /\ config_results[c][f][1] \in 0..config_results[c][f][2]

\* The draws of configuration c on which precision exceeds 0.8, and those
\* on which recall exceeds min_recall.
HighPrecisionDraws(c) ==
    {d \in DOMAIN posterior[c].precision : greater(posterior[c].precision[d], <<4, 5>>)}
MinRecallDraws(c) ==
    {d \in DOMAIN posterior[c].recall : greater(posterior[c].recall[d], min_recall)}

\* C13: for every configuration prob_both is the fraction of draws d on
\* which precision[d] > 0.8 and recall[d] > min_recall hold together, not
\* the product of the two marginal probabilities; hence
\* max(0, prob_precision_gt_80 + prob_recall_gt_min - 1) <= prob_both
\* <= min(prob_precision_gt_80, prob_recall_gt_min).
C13_ProbBothIsJointOnSameDraw ==
    pc = "identify" =>
        \A c \in DOMAIN config_results :
            LET D    == Len(posterior[c].precision)
                both == config_results[c]["prob_both"]
                prec == config_results[c]["prob_precision_gt_80"]
                rec  == config_results[c]["prob_recall_gt_min"]
            IN  /\ both[2] > 0 /\ prec[2] > 0 /\ rec[2] > 0
                /\ both[1] * D
                      = Cardinality(HighPrecisionDraws(c) \cap MinRecallDraws(c)) * both[2]
                /\ prec[1] * D = Cardinality(HighPrecisionDraws(c)) * prec[2]
                /\ rec[1] * D = Cardinality(MinRecallDraws(c)) * rec[2]
                /\ both[1] * prec[2] * rec[2]
                      >= (prec[1] * rec[2] + rec[1] * prec[2] - prec[2] * rec[2]) * both[2]
                /\ both[1] >= 0
                /\ both[1] * prec[2] <= prec[1] * both[2]
                /\ both[1] * rec[2] <= rec[1] * both[2]

\* C13 witness: of two draws one passes both tests and one fails both, so
\* the joint probability is 1/2 while the marginals multiply to 1/4.
C13_Witness ==
    /\ pc = "identify"
    /\ config_results[0]["prob_precision_gt_80"] = <<1, 2>>
    /\ config_results[0]["prob_recall_gt_min"] = <<1, 2>>
    /\ config_results[0]["prob_both"] = <<1, 2>>

ProbOf(c) == config_results[c]["prob_precision_gt_80"]

\* The configurations of the returned list.
ReturnedConfigs == {uncertain_configs[i][1] : i \in DOMAIN uncertain_configs}

\* |p - 1/2| <= |q - 1/2| on the ratios p and q themselves.
AtLeastAsCloseToHalf(p, q) ==
    LET abs(x) == IF x < 0 THEN -x ELSE x
    IN  abs(2 * p[1] - p[2]) * q[2] <= abs(2 * q[1] - q[2]) * p[2]

\* C15: identify_uncertain_configs returns a configuration if and only if
\* its P(precision > 0.8) lies strictly between threshold_low and
\* threshold_high, each returned pair carries that configuration's own
\* probability, and no configuration is returned twice.  Instance:
\* thresholds (0.1, 0.9) and probabilities [0.05, 0.5, 0.95] of configs
\* [0, 1, 2] return exactly [(1, 0.5)].
C15_SelectsStrictlyInsideBand ==
    pc = "summary" =>
        /\ \A c \in DOMAIN config_results :
              c \in ReturnedConfigs
                  <=> (less(threshold_low, ProbOf(c)) /\ less(ProbOf(c), threshold_high))
        /\ ReturnedConfigs \subseteq DOMAIN config_results
        /\ \A i \in DOMAIN uncertain_configs :
              uncertain_configs[i][2] = ProbOf(uncertain_configs[i][1])
        /\ \A i, j \in DOMAIN uncertain_configs :
              uncertain_configs[i][1] = uncertain_configs[j][1] => i = j
        /\ (/\ threshold_low = <<1, 10>>
            /\ threshold_high = <<9, 10>>
            /\ key_order = <<0, 1, 2>>
            /\ ProbOf(0) = <<1, 20>> /\ ProbOf(1) = <<1, 2>> /\ ProbOf(2) = <<19, 20>>)
              => uncertain_configs = <<<<1, <<1, 2>>>>>>

\* C15 witness: a table with a probability on each threshold and one
\* strictly inside has been ranked.
C15_Witness ==
    /\ pc = "summary"
    /\ threshold_low = <<1, 10>>
    /\ threshold_high = <<9, 10>>
    /\ key_order = <<0, 1, 2>>
    /\ ProbOf(0) = <<1, 10>> /\ ProbOf(1) = <<1, 2>> /\ ProbOf(2) = <<9, 10>>
    /\ uncertain_configs = <<<<1, <<1, 2>>>>>>

\* C16: the returned list is ordered by |P(precision > 0.8) - 0.5|
\* ascending: of two consecutive entries the earlier one's probability is
\* at least as close to 0.5 as the later one's.
C16_OrderedByDistanceFromHalf ==
    pc = "summary" =>
        \A i \in DOMAIN uncertain_configs :
            (i + 1) \in DOMAIN uncertain_configs =>
                /\ FxLeq(uncertainty(uncertain_configs[i][2]),
                         uncertainty(uncertain_configs[i + 1][2]))
                /\ AtLeastAsCloseToHalf(uncertain_configs[i][2],
                                        uncertain_configs[i + 1][2])

\* C16 witness: three selected configurations come back in an order that
\* is not their index order.
C16_Witness ==
    /\ pc = "summary"
    /\ key_order = <<0, 1, 2>>
    /\ ProbOf(0) = <<1, 10>> /\ ProbOf(1) = <<2, 5>> /\ ProbOf(2) = <<1, 2>>
    /\ uncertain_configs = <<<<2, <<1, 2>>>>, <<1, <<2, 5>>>>, <<0, <<1, 10>>>>>>

\* C17: two selected configurations with the same |P(precision > 0.8) - 0.5|
\* (for example probabilities 0.4 and 0.6) appear in ascending
\* configuration-index order in the result.
C17_TiesInIndexOrder ==
    pc = "summary" =>
        \A i, j \in DOMAIN uncertain_configs :
            (/\ i < j
             /\ uncertainty(uncertain_configs[i][2]) = uncertainty(uncertain_configs[j][2]))
                => uncertain_configs[i][1] < uncertain_configs[j][1]

\* C17 witness: configurations 0 and 2 hold 0.6 and 0.4 and come back in
\* that order, behind configuration 1, which holds 0.5.
C17_Witness ==
    /\ pc = "summary"
    /\ key_order = <<0, 1, 2>>
    /\ ProbOf(0) = <<3, 5>> /\ ProbOf(1) = <<1, 2>> /\ ProbOf(2) = <<2, 5>>
    /\ uncertain_configs = <<<<1, <<1, 2>>>>, <<0, <<3, 5>>>>, <<2, <<2, 5>>>>>>

(***************************************************************************)
(* Properties of main() (specifications SpecMain and FairSpecMain).        *)
(***************************************************************************)
\* C18: the prior predictive check is advisory only: once it has been
\* started the pipeline always goes on to model build and sampling, without
\* waiting for any further event and without aborting, for every
\* n_locations the extractor can produce (0 and 1 included); the check
\* itself never raises.
C18_PriorCheckNeverBlocks ==
    (pc = "prior_check") ~> (pc = "analyze" /\ model # Unbound /\ trace # Unbound)

\* prepare_data_for_model has returned and main() holds its outputs.
ExtractionDone ==
    LET r == prepare_data_for_model(results, true_errors)
    IN  /\ r.raised = "none"
        /\ observations = r.observations
        /\ location_idx = r.location_idx
        /\ factor_matrix = r.factor_matrix
        /\ location_map = r.location_map
        /\ is_true_error = r.is_true_error
        /\ all_locations = r.all_locations

\* What main() holds when a stage begins, common to both orders below.
StageInputsReady ==
    /\ pc = "build" => ExtractionDone /\ trace = Unbound
    /\ pc = "sample" => ExtractionDone /\ model # Unbound /\ trace = Unbound
    /\ pc = "analyze" => model # Unbound /\ trace # Unbound /\ config_results = Unbound
    /\ pc = "identify" => trace # Unbound /\ config_results # Unbound
                          /\ threshold_low = Unbound
    /\ pc = "summary" => config_results # Unbound /\ threshold_low # Unbound

\* C19 as stated: the stages run one at a time in the order extraction,
\* model build, sampling, scoring, ranking, each completing before the
\* next begins, and the prior predictive check runs after extraction and
\* model build and before sampling starts.
C19_StagesInStatedOrder ==
    /\ StageInputsReady
    /\ pc = "prior_check" => ExtractionDone /\ model # Unbound /\ trace = Unbound

\* C19 amended: the stages run one at a time in the order extraction,
\* prior predictive check, model build, sampling, scoring, ranking, each
\* completing before the next begins: the prior check runs after
\* extraction and before model build.
C19_StagesInCodeOrder ==
    [][pc' # pc =>
          /\ \/ pc' = "raised"
             \/ <<pc, pc'>> \in {<<"prepare", "prior_check">>,
                                 <<"prior_check", "input">>,
                                 <<"input", "build">>,
                                 <<"build", "sample">>,
                                 <<"sample", "analyze">>,
                                 <<"analyze", "identify">>,
                                 <<"identify", "summary">>,
                                 <<"summary", "save">>,
                                 <<"save", "saved">>}
          /\ StageInputsReady'
          /\ pc' = "prior_check" => ExtractionDone' /\ model' = Unbound /\ trace' = Unbound
          /\ pc' = "build" => model' = Unbound]_vars

\* C19 witness: a run has gone through every stage and ranked at least
\* one configuration.
C19_Witness ==
    /\ pc = "summary"
    /\ n_locations = 1
    /\ model # Unbound
    /\ trace # Unbound
    /\ Len(key_order) = NumConfigs
    /\ uncertain_configs # <<>>

(***************************************************************************)
(* Properties of the flattening (specification SpecFlatten).               *)
(***************************************************************************)
\* The trace that holds the one draw at chain c, sample k of the trace.
DrawAt(c, k) ==
    [alpha |-> <<<<trace["alpha"][c][k]>>>>,
     u_l   |-> <<<<trace["u_l"][c][k]>>>>,
     u_s_i |-> <<<<trace["u_s_i"][c][k]>>>>,
     u_s_o |-> <<<<trace["u_s_o"][c][k]>>>>,
     u_s_d |-> <<<<trace["u_s_d"][c][k]>>>>,
     u_s_s |-> <<<<trace["u_s_s"][c][k]>>>>,
     u_s_c |-> <<<<trace["u_s_c"][c][k]>>>>,
     u_s_a |-> <<<<trace["u_s_a"][c][k]>>>>,
     u_s_r |-> <<<<trace["u_s_r"][c][k]>>>>]

\* C20: per-draw joint identity: flattening places the draw of chain c,
\* sample s at the flat index c * n_samples + s for alpha, for every
\* location effect and for each of the seven factor effects, so every flat
\* index d combines values of one single draw, and the flat sequence has
\* length chains * samples.
C20_FlatIndexIsOneDraw ==
    pc = "computed" =>
        LET n_chains  == Len(trace["alpha"])
            n_samples == Len(trace["alpha"][1])
        IN  /\ Len(flat_samples.alpha) = n_chains * n_samples
            /\ flat_samples.u_l.raised = "none"
            /\ Len(flat_samples.u_l.value) = n_chains * n_samples
            /\ \A i \in 1..NumFactors :
                  Len(flat_samples.factors[i]) = n_chains * n_samples
            /\ \A c \in 0..(n_chains - 1) : \A k \in 0..(n_samples - 1) :
                  LET d == c * n_samples + k
                  IN  /\ flat_samples.alpha[d + 1] = trace["alpha"][c + 1][k + 1]
                      /\ flat_samples.u_l.value[d + 1] = trace["u_l"][c + 1][k + 1]
                      /\ \A i \in 1..NumFactors :
                            flat_samples.factors[i][d + 1]
                                = trace[factor_names[i]][c + 1][k + 1]
                      /\ \A cfg \in DOMAIN posterior :
                            LET alone == compute_precision_and_recall_for_config(
                                             DrawAt(c + 1, k + 1), decode_config(cfg),
                                             is_true_error, n_locations)
                            IN  /\ Len(posterior[cfg].precision) = n_chains * n_samples
                                /\ posterior[cfg].precision[d + 1] = alone.precision[1]
                                /\ posterior[cfg].recall[d + 1] = alone.recall[1]

\* C20 witness: two chains of two samples over two locations, with
\* different draws at (chain 0, sample 1) and (chain 1, sample 0), have
\* been flattened and scored under configuration 127.
C20_Witness ==
    /\ pc = "computed"
    /\ Len(trace["alpha"]) = 2
    /\ Len(trace["alpha"][1]) = 2
    /\ n_locations = 2
    /\ trace["alpha"][1][2] = -28
    /\ trace["alpha"][2][1] = 0
    /\ flat_samples.alpha = <<0, -28, 0, -28>>
    /\ 127 \in DOMAIN posterior

(***************************************************************************)
(* Properties of the tail of main(): sampling outcome, rollup and save     *)
(* (specifications SpecMain and SpecRollup).                               *)
(***************************************************************************)
\* The keys main() writes to bayesian_analysis.json, lines 511-530.
ScoreKeys == {"factor_effects", "config_results", "uncertain_configs", "summary"}

\* C21: when sampling ends without converging, the diagnostic is attached
\* to the Posterior Sample Set run_mcmc returned, and the pipeline does not
\* report the scores of that fit as if it were good: a results file
\* written for a non-converged fit holds something besides the scores,
\* which tells it from the file of a converged fit.
C21_NonConvergenceIsSurfaced ==
    /\ trace # Unbound => sample_stats \in SamplerDiagnostics
    /\ (results_file # Unbound /\ ~sample_stats.converged)
          => DOMAIN results_file \ ScoreKeys # {}

\* The number of draws of a trace: chains times samples.
DrawCount(tr) == Len(tr["alpha"]) * Len(tr["alpha"][1])

MaxChunks == 2

None == "None"

\* Lines 76-86.
CheckTypes ==
    {"typo", "clarity", "reader", "value", "function", "guess-function",
     "guess-value", "guess-reader"}

\* Lines 112-127.
select_system_prompt(check) ==
    CASE check = "clarity" -> "UNCLEAR_SYSTEM_PROMPT"
      [] check = "reader" -> "READER_SYSTEM_PROMPT"
      [] check = "value" -> "VALUE_SYSTEM_PROMPT"
      [] check = "function" -> "FUNCTION_SYSTEM_PROMPT"
      [] check = "guess-function" -> "GUESS_FUNCTION_SYSTEM_PROMPT"
      [] check = "guess-value" -> "GUESS_VALUE_SYSTEM_PROMPT"
      [] check = "guess-reader" -> "GUESS_READER_SYSTEM_PROMPT"
      [] OTHER -> "TYPO_SYSTEM_PROMPT"

\* x or default
or_default(x, default) == IF x = None \/ x = "" THEN default ELSE x

\* Lines 130-156.
compose_prompt(check, reader, function, prompt) ==
    LET reader_desc == or_default(reader, "a general reader")
        function_desc == or_default(function, "inform")
    IN  CASE check \in {"reader", "value"} ->
                <<"Check the following from the perspective of ", reader_desc,
                  ":\n\n">> \o prompt
          [] check = "function" ->
                <<"Check the following for whether it would ", function_desc,
                  " ", reader_desc, ":\n\n">> \o prompt
          [] check \in {"guess-function", "guess-value"} ->
                <<"For ", reader_desc, ":\n\n">> \o prompt
          [] check = "guess-reader" -> prompt
          [] OTHER -> <<"Check the following:\n\n">> \o prompt

\* "".join(output_chunks), line 165.
join(chunks) == flatten(chunks)

\* open(output_file, "w") followed by f.write(output), lines 169-170: the
\* old content is truncated away.
write_appending(old, output) == old \o output
write(old, output) == output

\* The content of the input file, and the chunks a model can stream.
InputText == <<"T", "e", "x", "t">>
Chunks == {<<>>, <<"a">>, <<"b", "c">>}

CliArgs ==
    [check : CheckTypes, reader : {None, "an expert"},
     function : {None, "convince"}]

InitCli ==
    /\ args \in CliArgs
    /\ response \in SeqsUpTo(Chunks, MaxChunks)
    /\ output_txt \in {<<>>, <<"o", "l", "d">>}
    /\ system_prompt = Unbound
    /\ prompt_text = Unbound
    /\ output_chunks = Unbound
    /\ stdout = <<>>
    /\ exit_code = Unbound
    /\ pc = "compose"
    /\ raised = "none"
    /\ results = Unbound
    /\ PipelineUnbound
    /\ FormatUnbound
    /\ Phase1Unbound
    /\ ConfigUnbound

\* Lines 107-156.
CliCompose ==
    /\ pc = "compose"
    /\ system_prompt' = select_system_prompt(args.check)
    /\ prompt_text' =
          compose_prompt(args.check, args.reader, args.function, InputText)
    /\ pc' = "prompt"
    /\ UNCHANGED <<raised, results, args, response, output_chunks, stdout,
                   output_txt, exit_code>>
    /\ UNCHANGED <<pipelineVars, formatVars, phase1Vars, configVars>>

\* Lines 159-161: the model is looked up and prompted; an unknown model or
\* a failing request raises, which ends the command with exit code 1.
CliPrompt ==
    /\ pc = "prompt"
    /\ \/ /\ output_chunks' = <<>>
          /\ pc' = "stream"
          /\ UNCHANGED <<raised, exit_code>>
       \/ /\ raised' = "Exception"
          /\ exit_code' = 1
          /\ pc' = "raised"
          /\ UNCHANGED output_chunks
    /\ UNCHANGED <<results, args, system_prompt, prompt_text, response, stdout,
                   output_txt>>
    /\ UNCHANGED <<pipelineVars, formatVars, phase1Vars, configVars>>

\* Lines 162-164, one iteration of the loop.
CliStream ==
    /\ pc = "stream"
    /\ Len(output_chunks) < Len(response)
    /\ \E chunk \in {response[Len(output_chunks) + 1]} :
          /\ stdout' = stdout \o chunk
          /\ output_chunks' = Append(output_chunks, chunk)
    /\ UNCHANGED <<pc, raised, results, args, system_prompt, prompt_text,
                   response, output_txt, exit_code>>
    /\ UNCHANGED <<pipelineVars, formatVars, phase1Vars, configVars>>

\* Lines 165-171 and the return of main: the command exits with code 0.
CliWrite ==
    /\ pc = "stream"
    /\ Len(output_chunks) = Len(response)
    /\ \E output \in {join(output_chunks)} :
          /\ output_txt' = write(output_txt, output)
          /\ stdout' = stdout \o <<"\nResults written to ", "output.txt", "\n">>
    /\ exit_code' = 0
    /\ pc' = "done"
    /\ UNCHANGED <<raised, results, args, system_prompt, prompt_text, response,
                   output_chunks>>
    /\ UNCHANGED <<pipelineVars, formatVars, phase1Vars, configVars>>

NextCli == CliCompose \/ CliPrompt \/ CliStream \/ CliWrite

SpecCli == InitCli /\ [][NextCli]_vars

\* s is a prefix of t.
IsPrefix(s, t) == Len(s) <= Len(t) /\ SubSeq(t, 1, Len(s)) = s

\* C23: for every check type and every sequence of response chunks the
\* model returns, main prints the chunks in their order, then overwrites
\* output.txt with exactly the concatenation of all chunks, and exits with
\* code 0.
C23_CliStreamsThenWritesConcatenation ==
    /\ pc = "stream" =>
          /\ IsPrefix(output_chunks, response)
          /\ stdout = flatten(output_chunks)
    /\ pc = "done" =>
          /\ output_chunks = response
          /\ IsPrefix(flatten(response), stdout)
          /\ stdout = flatten(response)
                        \o <<"\nResults written to ", "output.txt", "\n">>
          /\ output_txt = flatten(response)
          /\ exit_code = 0

\* C23 witness: a function check has streamed two different chunks and
\* written them.
C23_Witness ==
    /\ pc = "done"
    /\ args.check = "function"
    /\ response = <<<<"b", "c">>, <<"a">>>>
    /\ output_txt = <<"b", "c", "a">>

(***************************************************************************)
(* format_issues, src/src/editing_with_llms/formatters.py.  The formatted  *)
(* text is held by its structure: the lines of the compiler format, or the *)
(* list of objects that json.dumps serializes.  An Optional[int] is the    *)
(* sequence of its value, empty for None.                                  *)
(***************************************************************************)
MaxIssues == 2

\* models.py lines 7-16.
IssueChoices ==
    {[text |-> "teh", issue_type |-> "typo", explanation |-> "spelling",
      line_number |-> <<3>>, confidence |-> <<90>>, severity |-> "high"],
     [text |-> "teh", issue_type |-> "typo", explanation |-> "spelling",
      line_number |-> <<>>, confidence |-> <<>>, severity |-> None],
     [text |-> "it", issue_type |-> "clarity", explanation |-> "vague",
      line_number |-> <<0>>, confidence |-> <<>>, severity |-> "low"]}

\* The formats CheckProfile documents (models.py line 54), and one more.
DocumentedFormats == {"compiler", "streaming", "json"}
FormatChoices == DocumentedFormats \cup {"xml"}

\* Lines 12-33: one line per issue, joined by newlines; no issue, "".
CompilerFormatter_format(issue_list, file) ==
    [kind  |-> "compiler",
     lines |-> Array([k \in DOMAIN issue_list |->
                  [filename |-> file,
                   \* issue.line_number or 1
                   line_num |-> IF issue_list[k].line_number \in {<<>>, <<0>>}
                                THEN 1 ELSE issue_list[k].line_number[1],
                   col_num  |-> 1,
                   issue_type  |-> issue_list[k].issue_type,
                   explanation |-> issue_list[k].explanation]])]

\* Lines 90-103.
json_dumps_issues(issue_list) ==
    [kind    |-> "json",
     objects |-> Array([k \in DOMAIN issue_list |->
                    [text        |-> issue_list[k].text,
                     issue_type  |-> issue_list[k].issue_type,
                     explanation |-> issue_list[k].explanation,
                     line_number |-> issue_list[k].line_number,
                     confidence  |-> issue_list[k].confidence,
                     severity    |-> issue_list[k].severity]])]

\* Lines 73-105.
format_issues(issue_list, file, format) ==
    IF format = "compiler"
    THEN [raised |-> "none", value |-> CompilerFormatter_format(issue_list, file)]
    ELSE IF format = "json"
    THEN [raised |-> "none", value |-> json_dumps_issues(issue_list)]
    ELSE [raised |-> "ValueError", value |-> Unbound]

InitFormat ==
    /\ issues \in SeqsUpTo(IssueChoices, MaxIssues)
    /\ filename \in {"a.md", "b.txt"}
    /\ output_format \in FormatChoices
    /\ formatted = Unbound
    /\ pc = "format"
    /\ raised = "none"
    /\ results = Unbound
    /\ PipelineUnbound
    /\ CliUnbound
    /\ Phase1Unbound
    /\ ConfigUnbound

CallFormatIssues ==
    /\ pc = "format"
    /\ \E r \in {format_issues(issues, filename, output_format)} :
          /\ raised' = r.raised
          /\ formatted' = r.value
          /\ pc' = IF r.raised = "none" THEN "returned" ELSE "raised"
    /\ UNCHANGED <<results, issues, filename, output_format>>
    /\ UNCHANGED <<pipelineVars, cliVars, phase1Vars, configVars>>

NextFormat == CallFormatIssues

SpecFormat == InitFormat /\ [][NextFormat]_vars

\* C24: format_issues accepts each of the three documented formats
\* "compiler", "streaming" and "json" and returns a formatted string for
\* it; it raises ValueError only for a format name outside these three.
C24_DocumentedFormatsAccepted ==
    pc # "format" =>
        /\ output_format \in DocumentedFormats =>
                pc = "returned" /\ raised = "none" /\ formatted # Unbound
        /\ raised = "ValueError" => output_format \notin DocumentedFormats

(***************************************************************************)
(* Per-draw computation (specification SpecScorer).                        *)
(***************************************************************************)
\* The draws of the trace taken one at a time: draw d alone, flattened as
\* compute_precision_and_recall_for_config flattens the whole trace.
SingleDraws ==
    LET n_samples == Len(trace["alpha"][1])
    IN  Array([d \in 1..DrawCount(trace) |->
            flatten_posterior(DrawAt(((d - 1) \div n_samples) + 1,
                                     ((d - 1) % n_samples) + 1),
                              n_locations)])

\* The per-draw precision and recall of the configuration config, each
\* draw scored alone from the parameter values of that one draw.
PerDraw(singles, config) ==
    LET config_dict == config
        mask_int == is_true_error
    IN  Array([d \in DOMAIN singles |->
            LET flat == singles[d]
                alone == precision_and_recall(flat, config_dict, mask_int,
                                              n_locations)
            IN  [precision |-> alone.precision[1], recall |-> alone.recall[1]]])

\* C25: precision and recall are computed per draw and only then
\* summarized: for every entry of the table, mean_precision and mean_recall
\* are the means over draws of the per-draw precision and recall sequences
\* of the entry's configuration,
\* and prob_precision_gt_80 is the fraction of draws whose precision
\* exceeds 0.8; the sequences summarized are those of the single draws, not
\* values computed from parameters averaged over draws.
C25_ComputedPerDrawThenSummarized ==
    config_results # Unbound =>
        LET singles == SingleDraws
        IN  \A cfg \in DOMAIN config_results :
                LET each == PerDraw(singles, config_results[cfg].config)
                    precisions == Array([d \in DOMAIN each |-> each[d].precision])
                    recalls == Array([d \in DOMAIN each |-> each[d].recall])
                IN  /\ posterior[cfg].precision = precisions
                    /\ posterior[cfg].recall = recalls
                    /\ config_results[cfg].mean_precision = mean(precisions)
                    /\ config_results[cfg].mean_recall = mean(recalls)
                    /\ config_results[cfg].prob_precision_gt_80 =
                          <<Cardinality({d \in DOMAIN each :
                                            greater(each[d].precision, <<4, 5>>)}),
                            DrawCount(trace)>>

\* C25 witness: two draws of which one has a precision above 0.8 and one
\* does not, so that half of the draws count, while the effects differ
\* between the draws.
C25_Witness ==
    /\ config_results # Unbound
    /\ DrawCount(trace) = 2
    /\ n_locations = 2
    /\ config_results[127].prob_precision_gt_80 = <<1, 2>>
    /\ flatten(trace["u_s_i"])[1] # flatten(trace["u_s_i"])[2]

(***************************************************************************)
(* Row alignment and unflagged ground truth (specification Spec).          *)
(***************************************************************************)
\* C26: the three arrays returned by prepare_data_for_model are aligned row
\* by row in trial-major order: row i has location_idx[i] = i mod
\* n_locations, and observations[i] and factor_matrix[i] are the detected
\* bit and the 7-factor vector of trial number i div n_locations, in input
\* order.
C26_RowsAlignedTrialMajor ==
    Prepared =>
        /\ Len(location_idx) = Len(observations)
        /\ Len(factor_matrix) = Len(observations)
        /\ \A row \in 0..(Len(observations) - 1) :
              LET trial == results[(row \div n_locations) + 1]
                  loc == all_locations[(row % n_locations) + 1]
              IN  /\ location_idx[row + 1] = row % n_locations
                  /\ observations[row + 1] =
                        (IF \E j \in DOMAIN trial.detected_lines :
                                trial.detected_lines[j] = loc
                         THEN 1 ELSE 0)
                  /\ Len(factor_matrix[row + 1]) = NumFactors
                  /\ \A k \in 1..NumFactors :
                        factor_matrix[row + 1][k] =
                            (IF trial.config[FactorOrder[k]] THEN 1 ELSE 0)

\* C26 witness: two trials of different configurations over two locations,
\* the second trial flagging only the higher line.
C26_Witness ==
    /\ Prepared
    /\ Len(results) = 2
    /\ n_locations = 2
    /\ results[1].config # results[2].config
    /\ results[1].detected_lines = <<5>>
    /\ results[2].detected_lines = <<9>>
    /\ observations = <<1, 0, 0, 1>>

(***************************************************************************)
(* Ground-truth lines no trial flagged (specification SpecMain).           *)
(***************************************************************************)
\* prepare_data_for_model has returned.
Extracted == pc # "prepare" /\ raised # "KeyError"

\* C27: a ground-truth error line that no trial ever flagged is not a
\* location: it gets no index, no observation rows and no entry in
\* is_true_error, and it does not count in the recall denominator, which
\* is the number of flagged locations that are true errors and not the
\* size of the ground-truth set.
C27_UnflaggedTruthIsNoLocation ==
    Extracted =>
        /\ \A line \in true_errors \ FlaggedUnion :
              /\ line \notin DOMAIN location_map
              /\ line \notin Range(all_locations)
        /\ Len(is_true_error) = Cardinality(FlaggedUnion)
        /\ Len(observations) = Len(results) * Cardinality(FlaggedUnion)
        /\ posterior # Unbound =>
              \A c \in DOMAIN posterior : \A d \in DOMAIN posterior[c].recall :
                  posterior[c].recall[d].den =
                      FxOfInt(Cardinality(true_errors \cap FlaggedUnion))

\* C27 witness: line 12 is a true error that no trial flagged, and a draw
\* has a recall above 0.9, which a denominator of 2 would not allow.
C27_Witness ==
    /\ true_errors = {9, 12}
    /\ all_locations = <<5, 9>>
    /\ posterior # Unbound
    /\ \E c \in DOMAIN posterior : \E d \in DOMAIN posterior[c].recall :
          greater(posterior[c].recall[d], <<9, 10>>)

(***************************************************************************)
(* main() from line 442 on a table of up to MaxGiven entries: the ranking  *)
(* with the default thresholds, then the rollup counts.                    *)
(***************************************************************************)
RollupProbs == {<<1, 20>>, <<1, 10>>, <<1, 2>>, <<9, 10>>, <<19, 20>>}

InitRollup ==
    \E k \in 0..MaxGiven :
      \E probs \in [0..(k - 1) -> RollupProbs] :
        \E joint \in [0..(k - 1) -> BOOLEAN] :
            /\ config_results =
                  Array([c \in 0..(k - 1) |->
                      [prob_precision_gt_80 |-> probs[c],
                       prob_both |-> IF joint[c] THEN probs[c] ELSE <<0, 1>>]])
            /\ key_order = Array([j \in 1..k |-> j - 1])
            /\ pc = "identify"
            /\ raised = "none"
            /\ results = Unbound
            /\ true_errors = Unbound
            /\ observations = Unbound
            /\ location_idx = Unbound
            /\ factor_matrix = Unbound
            /\ location_map = Unbound
            /\ is_true_error = Unbound
            /\ all_locations = Unbound
            /\ n_locations = Unbound
            /\ row_trial = Unbound
            /\ trace = Unbound
            /\ min_recall = Unbound
            /\ posterior = Unbound
            /\ memo = Unbound
            /\ calls = 0
            /\ flat_samples = Unbound
            /\ model = Unbound
            /\ sample_stats = Unbound
            /\ summary = Unbound
            /\ results_file = Unbound
            /\ threshold_low = Unbound
            /\ threshold_high = Unbound
            /\ uncertain_configs = Unbound
            /\ ToolsUnbound

NextRollup == MainIdentify \/ MainSummary

SpecRollup == InitRollup /\ [][NextRollup]_vars

\* The configurations of the table by their P(precision > 0.8).
HighPrecisionConfigs ==
    {c \in DOMAIN config_results :
        less(<<9, 10>>, config_results[c].prob_precision_gt_80)}
LowPrecisionConfigs ==
    {c \in DOMAIN config_results :
        less(config_results[c].prob_precision_gt_80, <<1, 10>>)}
RankedConfigs == {uncertain_configs[j][1] : j \in DOMAIN uncertain_configs}
OnThresholdConfigs ==
    {c \in DOMAIN config_results :
        LET p == config_results[c].prob_precision_gt_80
        IN  10 * p[1] = p[2] \/ 10 * p[1] = 9 * p[2]}

\* C28: in the rollup no configuration is counted in more than one of
\* high_precision_only_count (P > 0.9), low_precision_count (P < 0.1) and
\* uncertain_count (0.1 < P < 0.9); a configuration is counted in none of
\* them only if its P is exactly 0.1 or exactly 0.9; so the three counts
\* sum to the size of the table (128 in main) minus the number of
\* configurations on a threshold, and uncertain_count is the length of the
\* ranked uncertain list.
C28_RollupCountsPartitionTheTable ==
    summary # Unbound =>
        /\ summary.high_precision_only_count = Cardinality(HighPrecisionConfigs)
        /\ summary.low_precision_count = Cardinality(LowPrecisionConfigs)
        /\ summary.uncertain_count = Len(uncertain_configs)
        /\ Cardinality(RankedConfigs) = Len(uncertain_configs)
        /\ HighPrecisionConfigs \cap LowPrecisionConfigs = {}
        /\ HighPrecisionConfigs \cap RankedConfigs = {}
        /\ LowPrecisionConfigs \cap RankedConfigs = {}
        /\ (DOMAIN config_results)
              \ (HighPrecisionConfigs \cup LowPrecisionConfigs \cup RankedConfigs)
                = OnThresholdConfigs
        /\ summary.high_precision_only_count + summary.low_precision_count
              + summary.uncertain_count
                = Len(key_order) - Cardinality(OnThresholdConfigs)

\* C28 witness: a table with one configuration above 0.9, one inside the
\* band and one exactly on the lower threshold has been counted.
C28_Witness ==
    /\ summary # Unbound
    /\ Len(key_order) = 3
    /\ summary.high_precision_only_count = 1
    /\ summary.low_precision_count = 0
    /\ summary.uncertain_count = 1
    /\ config_results[2].prob_precision_gt_80 = <<1, 10>>

(***************************************************************************)
(* phase1 of src/exploratory_testing/test_bayesian.py: the sampling loop   *)
(* and the save.  The loop runs num_initial_samples = 100 times in the     *)
(* code and MaxInitialSamples times here; random.choice draws from the     *)
(* configurations at Phase1Choices.                                        *)
(***************************************************************************)
MaxInitialSamples == 3

num_initial_samples == MaxInitialSamples

Phase1Choices == {0, 1, 127}

\* Lines 69-71.
generate_all_configs == [k \in 1..NumConfigs |-> from_index(k - 1)]

\* list.index(x): the position of the first element equal to x.
index_of_last(list, x) ==
    CHOOSE k \in 0..(Len(list) - 1) :
        /\ list[k + 1].use_arrow_format = x.use_arrow_format
        /\ \A j \in 0..(Len(list) - 1) :
              list[j + 1].use_arrow_format = x.use_arrow_format => j <= k
index(list, x) ==
    CHOOSE k \in 0..(Len(list) - 1) :
        list[k + 1] = x /\ \A j \in 0..(k - 1) : list[j + 1] # x

\* What run_single_trial can return: the line_number of each issue, an
\* Optional[int] held as a sequence of at most one element.
TrialIssues == {<<>>, <<<<5>>>>, <<<<>>, <<9>>, <<9>>>>}

\* len(a) / len(b) if b else 0, as the ratio <<len(a), len(b)>>.
ratio_or_zero(a, b) ==
    IF b # {} THEN <<Cardinality(a), Cardinality(b)>> ELSE <<0, 1>>

\* Lines 414-433.  list(a set) is held as the set.
make_result(config_index, config, trial_issues, true_error_lines) ==
    LET detected_lines ==
            {trial_issues[k][1] :
                k \in {j \in DOMAIN trial_issues :
                          trial_issues[j] # <<>> /\ trial_issues[j][1] # 0}}
        true_positives == detected_lines \cap true_error_lines
        false_positives == detected_lines \ true_error_lines
    IN  [config_index    |-> config_index,
         config          |-> to_dict(config),
         issues_found    |-> Len(trial_issues),
         detected_lines  |-> detected_lines,
         true_positives  |-> true_positives,
         false_positives |-> false_positives,
         precision       |-> ratio_or_zero(true_positives, detected_lines),
         recall          |-> ratio_or_zero(true_positives, true_error_lines)]

\* Lines 366-397.
InitPhase1 ==
    /\ true_errors \in GroundTruths
    /\ results = <<>>
    /\ iteration = 0
    /\ phase1_file = Unbound
    /\ trial_log = <<>>
    /\ pc = "loop"
    /\ raised = "none"
    /\ observations = Unbound
    /\ location_idx = Unbound
    /\ factor_matrix = Unbound
    /\ location_map = Unbound
    /\ is_true_error = Unbound
    /\ all_locations = Unbound
    /\ n_locations = Unbound
    /\ row_trial = Unbound
    /\ trace = Unbound
    /\ min_recall = Unbound
    /\ posterior = Unbound
    /\ config_results = Unbound
    /\ key_order = Unbound
    /\ memo = Unbound
    /\ calls = 0
    /\ flat_samples = Unbound
    /\ model = Unbound
    /\ sample_stats = Unbound
    /\ summary = Unbound
    /\ results_file = Unbound
    /\ threshold_low = Unbound
    /\ threshold_high = Unbound
    /\ uncertain_configs = Unbound
    /\ CliUnbound
    /\ FormatUnbound
    /\ ConfigUnbound

\* Lines 399-444, one iteration: the trial returns its issues and a record
\* is appended; or the trial raises an Exception, which the handler of
\* line 440 prints; or it raises a KeyboardInterrupt or SystemExit, which
\* are no Exception and leave phase1.
Phase1Trial ==
    /\ pc = "loop"
    /\ iteration < num_initial_samples
    /\ \E choice \in Phase1Choices :
        \E config \in {generate_all_configs[choice + 1]} :
        \E config_index \in {index(generate_all_configs, config)} :
          \/ \E trial_issues \in TrialIssues :
                /\ results' = Append(results,
                       make_result(config_index, config, trial_issues, true_errors))
                /\ trial_log' = Append(trial_log, "returned")
                /\ iteration' = iteration + 1
                /\ UNCHANGED <<pc, raised>>
          \/ /\ trial_log' = Append(trial_log, "Exception")
             /\ iteration' = iteration + 1
             /\ UNCHANGED <<pc, raised, results>>
          \/ /\ trial_log' = Append(trial_log, "KeyboardInterrupt")
             /\ raised' = "KeyboardInterrupt"
             /\ pc' = "raised"
             /\ UNCHANGED <<iteration, results>>
    /\ UNCHANGED phase1_file
    /\ UNCHANGED <<pipelineVars, cliVars, formatVars, configVars>>

\* Lines 446-454.
Phase1Save ==
    /\ pc = "loop"
    /\ iteration = num_initial_samples
    /\ phase1_file' =
          [phase |-> 1, num_samples |-> Len(results), results |-> results]
    /\ pc' = "saved"
    /\ UNCHANGED <<raised, results, iteration, trial_log>>
    /\ UNCHANGED <<pipelineVars, cliVars, formatVars, configVars>>

NextPhase1 == Phase1Trial \/ Phase1Save

SpecPhase1 == InitPhase1 /\ [][NextPhase1]_vars

\* The number of iterations of the log that ended as given.
CountOf(outcome) == Cardinality({k \in DOMAIN trial_log : trial_log[k] = outcome})

\* What C29 says of the records and of the saved file, whatever ended the
\* iterations: an iteration appends exactly one whole record when its
\* trial returned and none when it raised, every record's config_index
\* decodes to its config, and the saved num_samples is the number of saved
\* records, at most the number of iterations.
RecordsMatchTrials ==
    /\ Len(results) = CountOf("returned")
    /\ \A k \in DOMAIN results :
          /\ DOMAIN results[k] =
                {"config_index", "config", "issues_found", "detected_lines",
                 "true_positives", "false_positives", "precision", "recall"}
          /\ results[k].config_index \in 0..(NumConfigs - 1)
          /\ to_dict(from_index(results[k].config_index)) = results[k].config
    /\ phase1_file # Unbound =>
          /\ pc = "saved"
          /\ iteration = num_initial_samples
          /\ phase1_file.results = results
          /\ phase1_file.num_samples = Len(phase1_file.results)
          /\ phase1_file.num_samples <= num_initial_samples

\* C29 as stated: besides RecordsMatchTrials, an exception in a trial
\* never stops the later trials and the loop always runs all its
\* iterations: every iteration, raising or not, is followed by the next,
\* and phase1 is never left before the save.
C29_EveryIterationRuns ==
    /\ RecordsMatchTrials
    /\ Len(trial_log) = iteration
    /\ pc \in {"loop", "saved"}

\* C29 amended: an exception derived from Exception in a trial never stops
\* the later trials and leaves no record; the loop is left early only by
\* an exception that is no Exception (KeyboardInterrupt, SystemExit), and
\* then nothing is saved; otherwise it ends after all its iterations.
C29_OnlyNonExceptionsStopTheLoop ==
    /\ RecordsMatchTrials
    /\ CountOf("returned") + CountOf("Exception") = iteration
    /\ pc \in {"loop", "saved"} => raised = "none" /\ Len(trial_log) = iteration
    /\ pc = "raised" =>
          /\ raised = "KeyboardInterrupt"
          /\ trial_log[Len(trial_log)] = "KeyboardInterrupt"
          /\ CountOf("KeyboardInterrupt") = 1
          /\ phase1_file = Unbound

\* C29 witness: a run in which the second trial raised an Exception has
\* gone on to a third trial and saved two records.
C29_Witness ==
    /\ pc = "saved"
    /\ Len(trial_log) >= 3
    /\ trial_log[2] = "Exception"
    /\ trial_log[3] = "returned"
    /\ phase1_file.num_samples = Len(trial_log) - 1
    /\ results[2].config_index = 127

(***************************************************************************)
(* Configuration lookup, src/src/editing_with_llms/config.py.  A resolved  *)
(* path is the sequence of its components below the filesystem root, the   *)
(* root being the empty sequence; an Optional[Path] is the sequence of its *)
(* value, empty for None.                                                  *)
(***************************************************************************)
MaxDepth == 3
MaxConfigFiles == 2

DirNames == {"a", "b"}

Dirs == SeqsUpTo(DirNames, MaxDepth)

\* Line 9.
config_filename == ".editing-config.yaml"

\* Path.parent: the root is its own parent.
parent_skipping_one(path) ==
    IF Len(path) <= 1 THEN <<>> ELSE SubSeq(path, 1, Len(path) - 2)
parent(path) ==
    IF path = <<>> THEN <<>> ELSE SubSeq(path, 1, Len(path) - 1)

\* The sets of directories that hold a config file.
FileSystems == {Range(d) : d \in SeqsUpTo(Dirs, MaxConfigFiles)}

\* A path given to load_profiles by its caller.
ExplicitPath == <<"a", "my-config.yaml">>

InitConfig ==
    /\ fs \in FileSystems
    /\ start_dir \in Dirs
    /\ config_path \in {<<>>, <<ExplicitPath>>}
    /\ current = Unbound
    /\ examined = <<>>
    /\ profiles = Unbound
    /\ pc = "load_profiles"
    /\ raised = "none"
    /\ results = Unbound
    /\ PipelineUnbound
    /\ CliUnbound
    /\ FormatUnbound
    /\ Phase1Unbound

\* Lines 114-115: without a path load_profiles calls find_config_file(),
\* whose start directory is the current directory.
LoadProfilesCall ==
    /\ pc = "load_profiles"
    /\ pc' = IF config_path = <<>> THEN "resolve" ELSE "load"
    /\ UNCHANGED <<raised, results, configVars>>
    /\ UNCHANGED <<pipelineVars, cliVars, formatVars, phase1Vars>>

\* Lines 19-22.
FindResolve ==
    /\ pc = "resolve"
    /\ current' = start_dir
    /\ pc' = "search"
    /\ UNCHANGED <<raised, results, fs, start_dir, examined, config_path, profiles>>
    /\ UNCHANGED <<pipelineVars, cliVars, formatVars, phase1Vars>>

\* Lines 25-36, one iteration of the loop: the return of line 28, the
\* break of line 33 with the return of line 36, or the step of line 34.
FindExamine ==
    /\ pc = "search"
    /\ examined' = Append(examined, current)
    /\ IF current \in fs
       THEN /\ config_path' = <<current \o <<config_filename>>>>
            /\ pc' = "found_or_none"
            /\ UNCHANGED current
       ELSE IF parent(current) = current
       THEN /\ config_path' = <<>>
            /\ pc' = "found_or_none"
            /\ UNCHANGED current
       ELSE /\ current' = parent(current)
            /\ UNCHANGED <<pc, config_path>>
    /\ UNCHANGED <<raised, results, fs, start_dir, profiles>>
    /\ UNCHANGED <<pipelineVars, cliVars, formatVars, phase1Vars>>

\* Lines 117-120: the defaults when there is no path; otherwise
\* load_config_file, which raises when the file cannot be read or holds no
\* profiles section.
LoadProfilesReturn ==
    /\ pc \in {"found_or_none", "load"}
    /\ IF config_path = <<>>
       THEN /\ profiles' = [source |-> "get_default_profiles", path |-> <<>>]
            /\ pc' = "done"
            /\ UNCHANGED raised
       ELSE \/ /\ profiles' = [source |-> "load_config_file", path |-> config_path[1]]
               /\ pc' = "done"
               /\ UNCHANGED raised
            \/ /\ raised' \in {"ValueError", "OSError"}
               /\ pc' = "raised"
               /\ UNCHANGED profiles
    /\ UNCHANGED <<results, fs, start_dir, current, examined, config_path>>
    /\ UNCHANGED <<pipelineVars, cliVars, formatVars, phase1Vars>>

NextConfig == LoadProfilesCall \/ FindResolve \/ FindExamine \/ LoadProfilesReturn

SpecConfig == InitConfig /\ [][NextConfig]_vars

\* find_config_file has returned.
FindReturned == examined # <<>> /\ pc \in {"found_or_none", "done", "raised"}

\* C30: find_config_file terminates for every start directory: it
\* examines start_dir and then each ancestor exactly once going upward (so
\* at most depth + 1 directories), returns the config path in the nearest
\* directory that holds the file, start_dir first, and returns None once
\* the filesystem root has been examined without a match; load_profiles
\* falls back to the default profiles exactly in that None case.
C30_NearestConfigOrDefaults ==
    /\ examined # <<>> =>
          /\ examined[1] = start_dir
          /\ \A k \in 1..(Len(examined) - 1) :
                /\ examined[k + 1] = parent(examined[k])
                /\ Len(examined[k + 1]) = Len(examined[k]) - 1
                /\ examined[k] \notin fs
    /\ pc = "search" =>
          /\ Len(examined) + Len(current) = Len(start_dir)
          /\ examined # <<>> => current = parent(examined[Len(examined)])
    /\ FindReturned =>
          /\ Len(examined) <= Len(start_dir) + 1
          /\ config_path # <<>> =>
                /\ examined[Len(examined)] \in fs
                /\ config_path = <<examined[Len(examined)] \o <<config_filename>>>>
          /\ config_path = <<>> =>
                /\ examined[Len(examined)] = <<>>
                /\ Len(examined) = Len(start_dir) + 1
                /\ \A k \in 0..Len(start_dir) : SubSeq(start_dir, 1, k) \notin fs
    /\ pc = "done" =>
          /\ (profiles.source = "get_default_profiles") <=> (config_path = <<>>)
          /\ config_path = <<>> => FindReturned
          /\ profiles.source = "load_config_file" => profiles.path = config_path[1]

\* C30 witness: starting three levels down with a config file both in the
\* root and in the parent directory, the search has skipped the start
\* directory and returned the parent's file, which was loaded.
C30_Witness ==
    /\ pc = "done"
    /\ start_dir = <<"a", "b", "a">>
    /\ fs = {<<>>, <<"a", "b">>}
    /\ examined = <<<<"a", "b", "a">>, <<"a", "b">>>>
    /\ profiles.path = <<"a", "b", ".editing-config.yaml">>

====
